---- MODULE Spec2Model ----
(***************************************************************************)
(* Social-network pathfinding engine: the graph database with its shard    *)
(* bookkeeping, the bidirectional BFS, the LRU/TTL path cache and the      *)
(* pathfinding service, modelled from the Python sources.                  *)
(***************************************************************************)
EXTENDS Integers, Sequences, FiniteSets, TLC

\* ------------------------------------------------------------------ bounds
\* user ids of the graphs the search is run on (IdNames[1..NumUsers])
NumUsers == 8
\* user ids the database and service operations draw their arguments from
NumApiUsers == 3
\* cap on GraphDatabase.connection_count (an unbounded counter in the code)
MaxConnCount == 3
\* calling threads
NumThreads == 2

\* PathfindingService(cache_size): the capacity of the path cache
CacheSize == 2
\* cap on query_metrics['total_queries'] (an unbounded counter in the code)
MaxQueries == 3
\* the clock stops here
MaxTime == 2401
\* calls made on an LRUCache that is used directly
MaxLruCalls == 4

\* ------------------------------------------------------- program constants
NumShards == 4
MaxDepth == 6
\* PathfindingCache path_ttl and LRUCache._cleanup_interval, in seconds
PathTtl == 1800
CleanupInterval == 300

\* --------------------------------------------------------------- user ids
\* User ids are opaque strings; the model uses these.
IdNames == <<"u1", "u2", "u3", "u4", "u5", "u6", "u7", "u8", "u9", "u10", "u11">>

Ids == {IdNames[i] : i \in 1..(NumUsers + 1)}
GraphIds == {IdNames[i] : i \in 1..NumUsers}
GhostId == IdNames[NumUsers + 1]
ApiIds == {IdNames[i] : i \in 1..NumApiUsers}
Usernames == {"alice", "bob"}

\* Python's None
None == "None"

\* ------------------------------------------------------------------ state
VARIABLES
    users,            \* GraphDatabase._users: user_id -> record
    connections,      \* GraphDatabase._connections (a defaultdict of sets)
    connection_count, \* GraphDatabase.connection_count
    shard_users,      \* GraphShard.users of each shard (the ids)
    local_edges,      \* GraphShard.local_edges of each shard
    remote_edges,     \* GraphShard.remote_edges of each shard
    dbOp,             \* the mutation that holds GraphDatabase._lock, or NoOp
    last,             \* the last completed database/service call and its result
    th,               \* per calling thread: the locals of its call in progress
    cache,            \* PathfindingService.cache.cache, the LRUCache
    now,              \* time.time(), in seconds since the service was built
    query_metrics     \* PathfindingService.query_metrics

dbVars == <<users, connections, connection_count, shard_users, local_edges,
            remote_edges, dbOp>>
svcVars == <<cache, now, query_metrics>>
vars == <<users, connections, connection_count, shard_users, local_edges,
          remote_edges, dbOp, last, th, cache, now, query_metrics>>

Shards == 0..(NumShards - 1)

\* ------------------------------------------------------------- sharding.py
\* The low 16 bits of int(md5(user_id).hexdigest(), 16); since num_shards
\* divides 2^16 the residue modulo num_shards is that of the full digest.
Md5Low16 ==
    [u \in {IdNames[i] : i \in 1..Len(IdNames)} |->
        CASE u = "u1" -> 28084 [] u = "u2" -> 40019 [] u = "u3" -> 39478
          [] u = "u4" -> 12584 [] u = "u5" -> 57057 [] u = "u6" -> 14498
          [] u = "u7" -> 64492 [] u = "u8" -> 25330 [] u = "u9" -> 14397
          [] u = "u10" -> 25699 [] u = "u11" -> 29973]

_hash_user_id(user_id) == Md5Low16[user_id] % NumShards

\* faulty variant: the shard also depends on how many users are stored
get_shard_for_userByLoad(user_id) ==
    (Md5Low16[user_id] + Cardinality(DOMAIN users)) % NumShards

\* strategy is HASH_BASED in every instance GraphDatabase constructs
get_shard_for_user(user_id) == _hash_user_id(user_id)

\* d.setdefault(k, set()).add(v) and, on a defaultdict(set), d[k].add(v)
SetDefaultAdd(d, k, v) ==
    [x \in (DOMAIN d) \cup {k} |->
        IF x = k THEN (IF k \in DOMAIN d THEN d[k] ELSE {}) \cup {v} ELSE d[x]]

\* d.get(k, set()), and d[k] read on a defaultdict(set)
DictGetSet(d, k) == IF k \in DOMAIN d THEN d[k] ELSE {}

\* GraphShard.add_edge on shard s of the pair <<local_edges, remote_edges>>
ShardAddEdge(le, re, s, from_user, to_user, target_shard) ==
    IF target_shard = s
    THEN <<[le EXCEPT ![s] = SetDefaultAdd(le[s], from_user, to_user)], re>>
    ELSE <<le, [re EXCEPT ![s] =
                    SetDefaultAdd(re[s], from_user, <<to_user, target_shard>>)]>>

\* DistributedGraphSharding.add_connection: forward edge, then reverse edge
ShardingAddConnection(le, re, from_user_id, to_user_id) ==
    LET from_shard == get_shard_for_user(from_user_id)
        to_shard == get_shard_for_user(to_user_id)
        fwd == ShardAddEdge(le, re, from_shard, from_user_id, to_user_id, to_shard)
    IN  ShardAddEdge(fwd[1], fwd[2], to_shard, to_user_id, from_user_id, from_shard)

\* ------------------------------------------------------- graph_database.py
\* the database as one value: the fields of GraphDatabase and of its shards
DB ==
    [users |-> users, connections |-> connections,
     connection_count |-> connection_count, shard_users |-> shard_users,
     local_edges |-> local_edges, remote_edges |-> remote_edges]

\* GraphDatabase.__init__ and DistributedGraphSharding.__init__
EmptyDb ==
    [users |-> << >>, connections |-> << >>, connection_count |-> 0,
     shard_users |-> [s \in Shards |-> {}],
     local_edges |-> [s \in Shards |-> << >>],
     remote_edges |-> [s \in Shards |-> << >>]]

\* the fields are those of d
DbIs(d) ==
    /\ users = d.users
    /\ connections = d.connections
    /\ connection_count = d.connection_count
    /\ shard_users = d.shard_users
    /\ local_edges = d.local_edges
    /\ remote_edges = d.remote_edges

\* no mutation holds GraphDatabase._lock
NoOp == [op |-> "none", a |-> None, b |-> None]

\* no call has completed yet
NoCall == [op |-> "init", a |-> None, b |-> None, ret |-> None, before |-> << >>]

\* the fields after a step are those of d
DbBecomes(d) ==
    /\ users' = d.users
    /\ connections' = d.connections
    /\ connection_count' = d.connection_count
    /\ shard_users' = d.shard_users
    /\ local_edges' = d.local_edges
    /\ remote_edges' = d.remote_edges

\* the pairs {u, v} with v in the neighbourhood conns[u]
EdgesOf(conns) == UNION {{{u, v} : v \in conns[u]} : u \in DOMAIN conns}

\* history, not program state: each thread in a search records in its
\* field seen every pair that was adjacent at some instant since its call
\* began; the mutations extend it
ThreadsSee(conns) ==
    [t \in DOMAIN th |->
        IF th[t].pc = "idle" THEN th[t]
        ELSE [th[t] EXCEPT !.seen = @ \cup EdgesOf(conns)]]

\* self._connections.get(user_id, set()).copy()
get_connections(user_id) ==
    IF user_id \in DOMAIN connections THEN connections[user_id] ELSE {}

user_exists(user_id) == user_id \in DOMAIN users

\* add_user lines 45-54: self._users[user_id] = user_data, a record with a
\* fresh empty 'connections' set, whether or not the id was there
add_user(d, username, user_id) ==
    [d EXCEPT !.users =
        [x \in (DOMAIN d.users) \cup {user_id} |->
            IF x = user_id THEN [username |-> username, connections |-> {}]
                           ELSE d.users[x]]]

\* faulty variant: the from == to test of lines 73-74 is missing
AddConnectionRejectsUnknownOnly(d, from_user_id, to_user_id) ==
    \/ from_user_id \notin DOMAIN d.users
    \/ to_user_id \notin DOMAIN d.users

\* add_connection lines 70-74: the two validations
AddConnectionRejects(d, from_user_id, to_user_id) ==
    \/ from_user_id \notin DOMAIN d.users
    \/ to_user_id \notin DOMAIN d.users
    \/ from_user_id = to_user_id

\* add_connection line 77
AddConnectionFirst(d, from_user_id, to_user_id) ==
    [d EXCEPT !.connections = SetDefaultAdd(@, from_user_id, to_user_id)]

\* add_connection lines 78-87
AddConnectionRest(d, from_user_id, to_user_id) ==
    LET sh == ShardingAddConnection(d.local_edges, d.remote_edges,
                                    from_user_id, to_user_id)
    IN  [d EXCEPT !.connections = SetDefaultAdd(@, to_user_id, from_user_id),
                  !.users = [@ EXCEPT
                      ![from_user_id].connections = @ \cup {to_user_id},
                      ![to_user_id].connections = @ \cup {from_user_id}],
                  !.local_edges = sh[1],
                  !.remote_edges = sh[2],
                  !.connection_count = @ + 1]

\* GraphDatabase.add_connection: the database after the call, and its result
add_connection(d, from_user_id, to_user_id) ==
    IF AddConnectionRejects(d, from_user_id, to_user_id)
    THEN [db |-> d, ret |-> FALSE]
    ELSE [db |-> AddConnectionRest(
                     AddConnectionFirst(d, from_user_id, to_user_id),
                     from_user_id, to_user_id),
          ret |-> TRUE]

\* remove_connection lines 93-96: no adjacency entry, or the edge is absent
RemoveConnectionRejects(d, from_user_id, to_user_id) ==
    \/ from_user_id \notin DOMAIN d.connections
    \/ to_user_id \notin d.connections[from_user_id]

\* faulty variant: line 97 empties the neighbourhood of from_user_id
RemoveConnectionFirstClears(d, from_user_id, to_user_id) ==
    [d EXCEPT !.connections[from_user_id] = {}]

\* remove_connection line 97
RemoveConnectionFirst(d, from_user_id, to_user_id) ==
    [d EXCEPT !.connections[from_user_id] = @ \ {to_user_id}]

\* remove_connection line 98 raises KeyError (set.remove of a missing
\* element), lines 100-101 raise KeyError (no such user record)
RemoveConnectionRaises(d, from_user_id, to_user_id) ==
    \/ from_user_id \notin DictGetSet(d.connections, to_user_id)
    \/ from_user_id \notin DOMAIN d.users
    \/ to_user_id \notin DOMAIN d.users

\* faulty variant: line 98 is missing, the reverse entry stays
RemoveConnectionRestOneWay(d, from_user_id, to_user_id) ==
    [d EXCEPT !.users = [x \in DOMAIN d.users |->
        IF x = from_user_id
        THEN [d.users[x] EXCEPT !.connections = @ \ {to_user_id}]
        ELSE IF x = to_user_id /\ from_user_id \in DOMAIN d.users
        THEN [d.users[x] EXCEPT !.connections = @ \ {from_user_id}]
        ELSE d.users[x]]]

\* remove_connection lines 98-101; the defaultdict makes the entry of
\* to_user_id when it reads it
RemoveConnectionRest(d, from_user_id, to_user_id) ==
    LET touched == [x \in (DOMAIN d.connections) \cup {to_user_id} |->
                       DictGetSet(d.connections, x)]
    IN  IF from_user_id \notin touched[to_user_id]
        THEN [d EXCEPT !.connections = touched]
        ELSE [d EXCEPT
                !.connections = [touched EXCEPT ![to_user_id] = @ \ {from_user_id}],
                !.users = [x \in DOMAIN d.users |->
                    IF x = from_user_id
                    THEN [d.users[x] EXCEPT !.connections = @ \ {to_user_id}]
                    ELSE IF x = to_user_id /\ from_user_id \in DOMAIN d.users
                    THEN [d.users[x] EXCEPT !.connections = @ \ {from_user_id}]
                    ELSE d.users[x]]]

\* faulty variant: the membership test of line 96 is missing and the
\* removals are discards
remove_connectionUntested(d, from_user_id, to_user_id) ==
    IF from_user_id \notin DOMAIN d.connections
    THEN [db |-> d, ret |-> FALSE]
    ELSE LET first == RemoveConnectionFirst(d, from_user_id, to_user_id)
         IN  [db |-> RemoveConnectionRest(first, from_user_id, to_user_id),
              ret |-> TRUE]

\* GraphDatabase.remove_connection: the database after the call, and its
\* result (the string "KeyError" when the call raises)
remove_connection(d, from_user_id, to_user_id) ==
    IF RemoveConnectionRejects(d, from_user_id, to_user_id)
    THEN [db |-> d, ret |-> FALSE]
    ELSE LET first == RemoveConnectionFirst(d, from_user_id, to_user_id)
         IN  [db |-> RemoveConnectionRest(first, from_user_id, to_user_id),
              ret |-> IF RemoveConnectionRaises(first, from_user_id, to_user_id)
                      THEN "KeyError" ELSE TRUE]

\* the record of a completed call; before is the adjacency the step that
\* completes the call started from
Call(op, a, b, ret) ==
    [op |-> op, a |-> a, b |-> b, ret |-> ret, before |-> connections]

\* GraphDatabase.add_user; user_id None mints a uuid4, an id no user has
AddUser(username, user_id) ==
    /\ dbOp = NoOp
    /\ \E id \in (IF user_id = None THEN ApiIds \ DOMAIN users ELSE {user_id}) :
          /\ DbBecomes(add_user(DB, username, id))
          /\ last' = Call("add_user", user_id, None, id)
    /\ UNCHANGED <<dbOp, th, svcVars>>

\* GraphDatabase.add_connection as one step (no reader in between)
AddConnection(from_user_id, to_user_id) ==
    /\ dbOp = NoOp
    /\ connection_count < MaxConnCount
    /\ LET r == add_connection(DB, from_user_id, to_user_id)
       IN  /\ DbBecomes(r.db)
           /\ th' = ThreadsSee(r.db.connections)
           /\ last' = Call("add_connection", from_user_id, to_user_id, r.ret)
    /\ UNCHANGED <<dbOp, svcVars>>

\* GraphDatabase.remove_connection as one step
RemoveConnection(from_user_id, to_user_id) ==
    /\ dbOp = NoOp
    /\ LET r == remove_connection(DB, from_user_id, to_user_id)
       IN  /\ DbBecomes(r.db)
           /\ th' = ThreadsSee(r.db.connections)
           /\ last' = Call("remove_connection", from_user_id, to_user_id, r.ret)
    /\ UNCHANGED <<dbOp, svcVars>>

\* add_connection seen by a concurrent reader: get_connections and
\* user_exists take no lock, so a reader can run between line 77 and line
\* 78. The mutation takes GraphDatabase._lock, validates, and runs line 77.
AddConnectionBegin(from_user_id, to_user_id) ==
    /\ dbOp = NoOp
    /\ connection_count < MaxConnCount
    /\ IF AddConnectionRejects(DB, from_user_id, to_user_id)
       THEN /\ last' = Call("add_connection", from_user_id, to_user_id, FALSE)
            /\ UNCHANGED <<dbVars, th>>
       ELSE LET d == AddConnectionFirst(DB, from_user_id, to_user_id)
            IN  /\ DbBecomes(d)
                /\ th' = ThreadsSee(d.connections)
                /\ dbOp' = [op |-> "add_connection", a |-> from_user_id,
                            b |-> to_user_id]
                /\ UNCHANGED last
    /\ UNCHANGED svcVars

\* add_connection lines 78-88, and the lock is released
AddConnectionEnd ==
    /\ dbOp.op = "add_connection"
    /\ LET d == AddConnectionRest(DB, dbOp.a, dbOp.b)
       IN  /\ DbBecomes(d)
           /\ th' = ThreadsSee(d.connections)
           /\ last' = Call("add_connection", dbOp.a, dbOp.b, TRUE)
    /\ dbOp' = NoOp
    /\ UNCHANGED svcVars

\* remove_connection up to line 97, under the lock
RemoveConnectionBegin(from_user_id, to_user_id) ==
    /\ dbOp = NoOp
    /\ IF RemoveConnectionRejects(DB, from_user_id, to_user_id)
       THEN /\ last' = Call("remove_connection", from_user_id, to_user_id, FALSE)
            /\ UNCHANGED <<dbVars, th>>
       ELSE LET d == RemoveConnectionFirst(DB, from_user_id, to_user_id)
            IN  /\ DbBecomes(d)
                /\ th' = ThreadsSee(d.connections)
                /\ dbOp' = [op |-> "remove_connection", a |-> from_user_id,
                            b |-> to_user_id]
                /\ UNCHANGED last
    /\ UNCHANGED svcVars

\* remove_connection lines 98-103, and the lock is released
RemoveConnectionEnd ==
    /\ dbOp.op = "remove_connection"
    /\ LET d == RemoveConnectionRest(DB, dbOp.a, dbOp.b)
       IN  /\ DbBecomes(d)
           /\ th' = ThreadsSee(d.connections)
           /\ last' = Call("remove_connection", dbOp.a, dbOp.b,
                           IF RemoveConnectionRaises(DB, dbOp.a, dbOp.b)
                           THEN "KeyError" ELSE TRUE)
    /\ dbOp' = NoOp
    /\ UNCHANGED svcVars

\* ------------------------------------------------------------ statistics
\* sum(f[x] for x in S)
RECURSIVE SumFn(_, _)
SumFn(f, S) ==
    IF S = {} THEN 0
    ELSE LET x == CHOOSE y \in S : TRUE
         IN  f[x] + SumFn(f, S \ {x})

\* GraphShard.get_neighbors of shard s: the sizes of local and remote
ShardNeighborCounts(s, user_id) ==
    [local |-> Cardinality(DictGetSet(local_edges[s], user_id)),
     remote |-> Cardinality(DictGetSet(remote_edges[s], user_id))]

\* DistributedGraphSharding.get_cross_shard_ratio, as the fraction
\* <<numerator, denominator>>; 0.0 is <<0, 1>>. The loops run over
\* shard.users of every shard.
get_cross_shard_ratio ==
    LET total(s) == SumFn([u \in shard_users[s] |->
                             ShardNeighborCounts(s, u).local
                             + ShardNeighborCounts(s, u).remote], shard_users[s])
        cross(s) == SumFn([u \in shard_users[s] |->
                             ShardNeighborCounts(s, u).remote], shard_users[s])
        total_edges == SumFn([s \in Shards |-> total(s)], Shards)
        cross_shard_edges == SumFn([s \in Shards |-> cross(s)], Shards)
    IN  IF total_edges > 0 THEN <<cross_shard_edges, total_edges>> ELSE <<0, 1>>

\* DistributedGraphSharding.get_shard_stats
get_shard_stats ==
    [s \in Shards |->
        LET local == SumFn([u \in DOMAIN local_edges[s] |->
                              Cardinality(local_edges[s][u])], DOMAIN local_edges[s])
            remote == SumFn([u \in DOMAIN remote_edges[s] |->
                               Cardinality(remote_edges[s][u])], DOMAIN remote_edges[s])
        IN  [users |-> Cardinality(shard_users[s]), local_edges |-> local,
             remote_edges |-> remote, total_edges |-> local + remote]]

\* GraphDatabase.get_database_stats (query_count and the average are left out)
get_database_stats ==
    [total_users |-> Cardinality(DOMAIN users),
     total_connections |->
         SumFn([u \in DOMAIN connections |-> Cardinality(connections[u])],
               DOMAIN connections) \div 2,
     num_shards |-> NumShards,
     cross_shard_ratio |-> get_cross_shard_ratio,
     shard_stats |-> get_shard_stats]

\* --------------------------------------------------- bidirectional_bfs.py
Threads == 1..NumThreads

\* dict.get(k): None when the key is missing
DictGet(d, k) == IF k \in DOMAIN d THEN d[k] ELSE None

\* depths.get(k, 0)
DepthGet(d, k) == IF k \in DOMAIN d THEN d[k] ELSE 0

Reverse(s) == [i \in 1..Len(s) |-> s[Len(s) + 1 - i]]

\* the orders in which Python may iterate over the set S
Orders(S) ==
    {o \in [1..Cardinality(S) -> S] : \A i, j \in 1..Cardinality(S) :
                                          o[i] = o[j] => i = j}

\* faulty variant: __post_init__ counts the users of the path, not its edges
PostInitDistanceCountsUsers(path) ==
    IF path # None /\ Len(path) > 0 THEN Len(path) ELSE -1

\* PathResult.__post_init__: the distance passed in is overwritten
PostInitDistance(path) ==
    IF path # None /\ Len(path) > 0 THEN Len(path) - 1 ELSE -1

\* PathResult(path, distance, nodes_explored, execution_time_ms, found);
\* the wall-clock execution_time_ms is not modelled
PathResult(path, distance, nodes_explored, found) ==
    [path |-> path, distance |-> PostInitDistance(path),
     nodes_explored |-> nodes_explored, found |-> found]

\* faulty variant: the stored set itself is returned
SetAlias(user_id, s) ==
    [alias |-> IF user_id \in DOMAIN connections THEN user_id ELSE None,
     elems |-> s]

\* set.copy() of the set stored for user_id, or of the default set(): a set
\* object of its own (alias says which stored set an object is, None for
\* an object of its own; elems are the elements it was returned with)
SetCopy(user_id, s) == [alias |-> None, elems |-> s]

\* no set object
NoSet == [alias |-> None, elems |-> {}]

\* the elements of a set object in the current state
Elems(obj) ==
    IF obj.alias = None THEN obj.elems ELSE get_connections(obj.alias)

\* the locals of a thread that is in no call
IdleLocals ==
    [pc |-> "idle", svc |-> FALSE, use_cache |-> FALSE,
     start |-> None, target |-> None,
     fq |-> << >>, bq |-> << >>, fvis |-> << >>, bvis |-> << >>,
     fdep |-> << >>, bdep |-> << >>,
     nodes_explored |-> 0, current_depth |-> 0,
     side |-> None, next_queue |-> << >>,
     result |-> None, response |-> None, seen |-> {}, neighbors |-> NoSet]

\* the while loops of _reconstruct_path: current, visited.get(current), ...
RECURSIVE WalkParents(_, _)
WalkParents(visited, current) ==
    IF current = None THEN << >>
    ELSE <<current>> \o WalkParents(visited, DictGet(visited, current))

\* faulty variant: the path is made to begin at start whatever the parent maps hold
_reconstruct_pathFromStart(start, target, meeting_point, forward_visited, backward_visited) ==
    LET forward_path == Reverse(WalkParents(forward_visited, meeting_point))
        backward_path == WalkParents(backward_visited,
                                     DictGet(backward_visited, meeting_point))
    IN  (IF forward_path[1] = start THEN << >> ELSE <<start>>)
        \o forward_path \o backward_path

_reconstruct_path(start, target, meeting_point, forward_visited, backward_visited) ==
    LET forward_path == Reverse(WalkParents(forward_visited, meeting_point))
        backward_path == WalkParents(backward_visited,
                                     DictGet(backward_visited, meeting_point))
    IN  forward_path \o backward_path

\* find_shortest_path lines 107-109
NoPathFound(l) ==
    [l EXCEPT !.pc = "bfs_done",
              !.result = PathResult(None, -1, l.nodes_explored, FALSE)]

\* find_shortest_path lines 47-67: the edge cases and the initialisation
FindShortestPathEntry(l, start_user, target_user) ==
    LET c == [l EXCEPT !.start = start_user, !.target = target_user,
                       !.seen = EdgesOf(connections)]
    IN  IF start_user = target_user
        THEN [c EXCEPT !.pc = "bfs_done",
                       !.result = PathResult(<<start_user>>, 0, 1, TRUE)]
        ELSE IF ~user_exists(start_user) \/ ~user_exists(target_user)
        THEN [c EXCEPT !.pc = "bfs_done",
                       !.result = PathResult(None, -1, 0, FALSE)]
        ELSE [c EXCEPT !.pc = "bfs_loop",
                       !.fq = <<start_user>>, !.bq = <<target_user>>,
                       !.fvis = (start_user :> None), !.bvis = (target_user :> None),
                       !.fdep = (start_user :> 0), !.bdep = (target_user :> 0),
                       !.nodes_explored = 0, !.current_depth = 0]

\* the queue the current call of _expand_frontier works on
SideQueue(l) == IF l.side = "f" THEN l.fq ELSE l.bq

\* faulty variant: the loop goes on whatever current_depth is
AfterExpandNoBreak(l) ==
    [l EXCEPT !.nodes_explored = @ + Len(SideQueue(l)),
              !.current_depth = @ + 1,
              !.pc = "bfs_loop"]

\* find_shortest_path lines 85/99 and 101-105, after _expand_frontier
\* returned None: nodes_explored += len(queue); current_depth += 1; break
AfterExpand(l) ==
    LET c == [l EXCEPT !.nodes_explored = @ + Len(SideQueue(l)),
                       !.current_depth = @ + 1]
    IN  IF c.current_depth > MaxDepth THEN NoPathFound(c)
        ELSE [c EXCEPT !.pc = "bfs_loop"]

\* find_shortest_path lines 69-72 with _expand_frontier lines 127-130: the
\* loop condition, the choice of the side, and the empty-queue return
LoopHead(l) ==
    IF l.fq = << >> /\ l.bq = << >> THEN NoPathFound(l)
    ELSE LET c == [l EXCEPT !.side = IF Len(l.fq) <= Len(l.bq) THEN "f" ELSE "b",
                            !.next_queue = << >>]
         IN  IF SideQueue(c) = << >> THEN AfterExpand(c)
             ELSE [c EXCEPT !.pc = "bfs_expand"]

\* _expand_frontier lines 133-137: popleft, and the depth test
PopCurrent(l) ==
    IF l.side = "f" THEN [l EXCEPT !.fq = Tail(@)] ELSE [l EXCEPT !.bq = Tail(@)]

\* faulty variant: a half is cut only past max_depth instead of at max_depth // 2
TooDeepPastMaxDepth(l, current_user) ==
    DepthGet(IF l.side = "f" THEN l.fdep ELSE l.bdep, current_user) > MaxDepth

TooDeep(l, current_user) ==
    DepthGet(IF l.side = "f" THEN l.fdep ELSE l.bdep, current_user) >= MaxDepth \div 2

\* _expand_frontier lines 144-145 and find_shortest_path lines 77-83/91-97:
\* the neighbour is in the other half's visited map
MeetingReturn(l, meeting_point) ==
    LET path == _reconstruct_path(l.start, l.target, meeting_point, l.fvis, l.bvis)
    IN  [l EXCEPT !.pc = "bfs_done",
                  !.result = PathResult(path, Len(path) - 1, l.nodes_explored, TRUE)]

\* faulty variant: the unvisited neighbours are appended to the queue that
\* is being drained
VisitNeighborsIntoQueue(l, current_user, order) ==
    LET new == {order[i] : i \in 1..Len(order)}
        add(visited) == [x \in (DOMAIN visited) \cup new |->
                            IF x \in new THEN current_user ELSE visited[x]]
        dep(depths) == [x \in (DOMAIN depths) \cup new |->
                            IF x \in new THEN depths[current_user] + 1 ELSE depths[x]]
    IN  IF l.side = "f"
        THEN [l EXCEPT !.fvis = add(@), !.fdep = dep(@), !.fq = @ \o order]
        ELSE [l EXCEPT !.bvis = add(@), !.bdep = dep(@), !.bq = @ \o order]

\* _expand_frontier lines 148-151 for the unvisited neighbours, in the order
\* the set is iterated
VisitNeighbors(l, current_user, order) ==
    LET new == {order[i] : i \in 1..Len(order)}
        add(visited) == [x \in (DOMAIN visited) \cup new |->
                            IF x \in new THEN current_user ELSE visited[x]]
        dep(depths) == [x \in (DOMAIN depths) \cup new |->
                            IF x \in new THEN depths[current_user] + 1 ELSE depths[x]]
    IN  IF l.side = "f"
        THEN [l EXCEPT !.fvis = add(@), !.fdep = dep(@), !.next_queue = @ \o order]
        ELSE [l EXCEPT !.bvis = add(@), !.bdep = dep(@), !.next_queue = @ \o order]

\* _expand_frontier lines 153-155: queue.extend(next_queue); return None
ExtendQueue(l) ==
    IF l.side = "f" THEN [l EXCEPT !.fq = @ \o l.next_queue, !.next_queue = << >>]
    ELSE [l EXCEPT !.bq = @ \o l.next_queue, !.next_queue = << >>]

\* one turn of the while loop of find_shortest_path up to the first popleft
BfsLoop(t) ==
    /\ th[t].pc = "bfs_loop"
    /\ th' = [th EXCEPT ![t] = LoopHead(th[t])]
    /\ UNCHANGED <<dbVars, last, svcVars>>

\* one turn of the while loop of _expand_frontier (lines 132-151): the
\* adjacency is read once, by get_connections, and iterated as a snapshot
BfsExpandNode(t) ==
    /\ th[t].pc = "bfs_expand"
    /\ SideQueue(th[t]) # << >>
    /\ LET l == th[t]
           current_user == Head(SideQueue(l))
           c == PopCurrent(l)
           visited == IF l.side = "f" THEN l.fvis ELSE l.bvis
           other_visited == IF l.side = "f" THEN l.bvis ELSE l.fvis
           neighbors == get_connections(current_user)
           meet == neighbors \cap DOMAIN other_visited
       IN  IF TooDeep(l, current_user)
           THEN th' = [th EXCEPT ![t] = c]
           ELSE IF meet # {}
           THEN \E m \in meet : th' = [th EXCEPT ![t] = MeetingReturn(c, m)]
           ELSE \E order \in Orders(neighbors \ DOMAIN visited) :
                    th' = [th EXCEPT ![t] = VisitNeighbors(c, current_user, order)]
    /\ UNCHANGED <<dbVars, last, svcVars>>

\* the end of _expand_frontier and the rest of the turn of the outer loop
BfsExpandEnd(t) ==
    /\ th[t].pc = "bfs_expand"
    /\ SideQueue(th[t]) = << >>
    /\ th' = [th EXCEPT ![t] = AfterExpand(ExtendQueue(th[t]))]
    /\ UNCHANGED <<dbVars, last, svcVars>>

\* a direct call of BidirectionalBFS.find_shortest_path
FindShortestPath(t, start_user, target_user) ==
    /\ th[t].pc = "idle"
    /\ th' = [th EXCEPT ![t] =
                 FindShortestPathEntry(IdleLocals, start_user, target_user)]
    /\ UNCHANGED <<dbVars, last, svcVars>>

\* the direct call returns its PathResult
BfsReturn(t) ==
    /\ th[t].pc = "bfs_done"
    /\ ~th[t].svc
    /\ th' = [th EXCEPT ![t] = IdleLocals]
    /\ UNCHANGED <<dbVars, last, svcVars>>

\* ----------------------------------------------------------- lru_cache.py
\* ord() of the characters user ids are written with
Ord ==
    [c \in {"0", "1", "2", "3", "4", "5", "6", "7", "8", "9", "u"} |->
        CASE c = "0" -> 48 [] c = "1" -> 49 [] c = "2" -> 50 [] c = "3" -> 51
          [] c = "4" -> 52 [] c = "5" -> 53 [] c = "6" -> 54 [] c = "7" -> 55
          [] c = "8" -> 56 [] c = "9" -> 57 [] c = "u" -> 117]

\* Python's str.__lt__: lexicographic by code point
RECURSIVE StrLess(_, _)
StrLess(a, b) ==
    IF a = "" THEN b # ""
    ELSE IF b = "" THEN FALSE
    ELSE LET ca == SubSeq(a, 1, 1)
             cb == SubSeq(b, 1, 1)
         IN  IF ca = cb THEN StrLess(SubSeq(a, 2, Len(a)), SubSeq(b, 2, Len(b)))
             ELSE Ord[ca] < Ord[cb]

\* sorted([a, b])
Sorted2(a, b) == IF StrLess(b, a) THEN <<b, a>> ELSE <<a, b>>

\* LRUCache.__init__: _cache is the OrderedDict as the sequence of its
\* entries, oldest first; each entry carries its key
EmptyCache ==
    [_cache |-> << >>, hit_count |-> 0, miss_count |-> 0, eviction_count |-> 0,
     cleanup_count |-> 0, _last_cleanup |-> 0]

\* CacheEntry(value, timestamp, access_count, ttl), with the key it is under
CacheEntry(key, value, timestamp, access_count, ttl) ==
    [key |-> key, value |-> value, timestamp |-> timestamp,
     access_count |-> access_count, ttl |-> ttl]

\* faulty variant: the entry is expired only from twice its ttl on
is_expiredLate(entry, t) == t - entry.timestamp > 2 * entry.ttl

\* CacheEntry.is_expired at time t; put always sets a ttl, so ttl is a number
is_expired(entry, t) == t - entry.timestamp > entry.ttl

\* CacheEntry.touch at time t
touch(entry, t) ==
    [entry EXCEPT !.access_count = @ + 1, !.timestamp = t]

\* key in self._cache
HasKey(c, key) == \E i \in 1..Len(c._cache) : c._cache[i].key = key

\* self._cache[key]
EntryOf(c, key) ==
    c._cache[CHOOSE i \in 1..Len(c._cache) : c._cache[i].key = key]

\* del self._cache[key]
DelKey(c, key) ==
    [c EXCEPT !._cache = SelectSeq(@, LAMBDA e : e.key # key)]

\* LRUCache._periodic_cleanup at time t
_periodic_cleanup(c, t) ==
    IF t - c._last_cleanup < CleanupInterval THEN c
    ELSE LET kept == SelectSeq(c._cache, LAMBDA e : ~is_expired(e, t))
         IN  [c EXCEPT !._cache = kept,
                       !.cleanup_count = @ + (Len(c._cache) - Len(kept)),
                       !._last_cleanup = t]

\* faulty variant: a hit leaves the entry at its place in the order
getKeepsPlace(c0, key, t) ==
    LET c == _periodic_cleanup(c0, t)
    IN  IF ~HasKey(c, key)
        THEN [cache |-> [c EXCEPT !.miss_count = @ + 1], hit |-> FALSE,
              ret |-> None]
        ELSE LET entry == EntryOf(c, key)
             IN  IF is_expired(entry, t)
                 THEN [cache |-> [DelKey(c, key) EXCEPT !.miss_count = @ + 1],
                       hit |-> FALSE, ret |-> None]
                 ELSE [cache |-> [c EXCEPT
                                    !._cache = [i \in DOMAIN @ |->
                                                  IF @[i].key = key
                                                  THEN touch(entry, t)
                                                  ELSE @[i]],
                                    !.hit_count = @ + 1],
                       hit |-> TRUE, ret |-> entry.value]

\* LRUCache.get at time t: the cache afterwards and the value returned
\* (hit is "the value is not None")
get(c0, key, t) ==
    LET c == _periodic_cleanup(c0, t)
    IN  IF ~HasKey(c, key)
        THEN [cache |-> [c EXCEPT !.miss_count = @ + 1], hit |-> FALSE,
              ret |-> None]
        ELSE LET entry == EntryOf(c, key)
             IN  IF is_expired(entry, t)
                 THEN [cache |-> [DelKey(c, key) EXCEPT !.miss_count = @ + 1],
                       hit |-> FALSE, ret |-> None]
                 ELSE [cache |-> [c EXCEPT
                                    !._cache = Append(DelKey(c, key)._cache,
                                                      touch(entry, t)),
                                    !.hit_count = @ + 1],
                       hit |-> TRUE, ret |-> entry.value]

\* the loop of put that evicts from the front while over capacity
RECURSIVE Evict(_, _)
Evict(c, max_size) ==
    IF Len(c._cache) > max_size
    THEN Evict([c EXCEPT !._cache = Tail(@), !.eviction_count = @ + 1], max_size)
    ELSE c

\* faulty variant: over capacity the newest entries are dropped
putEvictsNewest(c, key, value, ttl, t, max_size) ==
    LET d == IF HasKey(c, key) THEN DelKey(c, key) ELSE c
        e == Append(d._cache, CacheEntry(key, value, t, 1, ttl))
    IN  IF Len(e) > max_size
        THEN [d EXCEPT !._cache = SubSeq(e, 1, max_size),
                       !.eviction_count = @ + (Len(e) - max_size)]
        ELSE [d EXCEPT !._cache = e]

\* faulty variant: the eviction loop is missing
putUnbounded(c, key, value, ttl, t, max_size) ==
    LET d == IF HasKey(c, key) THEN DelKey(c, key) ELSE c
    IN  [d EXCEPT !._cache = Append(@, CacheEntry(key, value, t, 1, ttl))]

\* LRUCache.put at time t
put(c, key, value, ttl, t, max_size) ==
    LET d == IF HasKey(c, key) THEN DelKey(c, key) ELSE c
        e == [d EXCEPT !._cache = Append(@, CacheEntry(key, value, t, 1, ttl))]
    IN  Evict(e, max_size)

\* LRUCache.delete: the cache afterwards and the value returned
delete(c, key) ==
    IF HasKey(c, key) THEN [cache |-> DelKey(c, key), ret |-> TRUE]
    ELSE [cache |-> c, ret |-> FALSE]

\* LRUCache.clear: cleanup_count and _last_cleanup are not reset
clear(c) ==
    [c EXCEPT !._cache = << >>, !.hit_count = 0, !.miss_count = 0,
              !.eviction_count = 0]

\* PathfindingCache._create_path_key
_create_path_key(start_user, target_user) ==
    LET sorted_users == Sorted2(start_user, target_user)
    IN  "path:" \o sorted_users[1] \o ":" \o sorted_users[2]

\* faulty variant: the path is handed out as it is stored
get_pathAsStored(c, start_user, target_user, t) ==
    LET r == get(c, _create_path_key(start_user, target_user), t)
    IN  [cache |-> r.cache, hit |-> r.hit, ret |-> r.ret, stored |-> r.hit]

\* PathfindingCache.get_path at time t. stored says whether the dict that
\* is returned is the one the cache holds (no copy was made).
get_path(c, start_user, target_user, t) ==
    LET r == get(c, _create_path_key(start_user, target_user), t)
        result == r.ret
    IN  IF ~r.hit
        THEN [cache |-> r.cache, hit |-> FALSE, ret |-> None, stored |-> FALSE]
        ELSE IF start_user # result.start_user /\ result.path # None
                  /\ Len(result.path) > 0
        THEN [cache |-> r.cache, hit |-> TRUE,
              ret |-> [result EXCEPT !.path = Reverse(@),
                                     !.start_user = result.target_user,
                                     !.target_user = result.start_user],
              stored |-> FALSE]
        ELSE [cache |-> r.cache, hit |-> TRUE, ret |-> result, stored |-> TRUE]

\* the record path_result.copy() with the three fields cache_path adds
CacheData(path_result, start_user, target_user, t) ==
    [found |-> path_result.found, path |-> path_result.path,
     degrees_of_separation |-> path_result.degrees_of_separation,
     nodes_explored |-> path_result.nodes_explored,
     start_user_id |-> path_result.start_user_id,
     target_user_id |-> path_result.target_user_id,
     from_cache |-> path_result.from_cache,
     start_user |-> start_user, target_user |-> target_user, cached_at |-> t]

\* PathfindingCache.cache_path at time t
cache_path(c, start_user, target_user, path_result, t) ==
    put(c, _create_path_key(start_user, target_user),
        CacheData(path_result, start_user, target_user, t), PathTtl, t, CacheSize)

\* str.startswith
StartsWith(s, prefix) ==
    Len(prefix) <= Len(s) /\ SubSeq(s, 1, Len(prefix)) = prefix

\* Python's "x in s" for strings: x is a substring of s
Contains(s, x) ==
    \E i \in 1..(Len(s) - Len(x) + 1) : SubSeq(s, i, i + Len(x) - 1) = x

\* faulty variant: only the keys whose first id is user_id are removed
KeyToRemoveFirstOnly(key, user_id) ==
    StartsWith(key, "path:" \o user_id \o ":")

\* invalidate_user_paths line 219: the test that selects a key
KeyToRemove(key, user_id) ==
    StartsWith(key, "path:") /\ Contains(key, user_id)

\* PathfindingCache.invalidate_user_paths: the cache afterwards and the
\* number of entries deleted
invalidate_user_paths(c, user_id) ==
    LET kept == SelectSeq(c._cache, LAMBDA e : ~KeyToRemove(e.key, user_id))
    IN  [cache |-> [c EXCEPT !._cache = kept],
         ret |-> Len(c._cache) - Len(kept)]

\* ---------------------------------------------------- pathfinding_service.py
\* PathfindingService.__init__: query_metrics (the average response time is
\* wall-clock and is left out)
InitialMetrics ==
    [total_queries |-> 0, cache_hits |-> 0, cache_misses |-> 0,
     successful_queries |-> 0, failed_queries |-> 0, timeout_queries |-> 0]

\* the service's cache, clock and metrics are in state [c, t, m]
SvcIs(c, t, m) == cache = c /\ now = t /\ query_metrics = m

\* faulty variant: the degrees of separation count the users of the path
_format_path_responseOffByOne(path_result, start_user_id, target_user_id) ==
    [found |-> path_result.found, path |-> path_result.path,
     degrees_of_separation |-> IF path_result.found THEN Len(path_result.path)
                               ELSE path_result.distance,
     nodes_explored |-> path_result.nodes_explored,
     start_user_id |-> start_user_id, target_user_id |-> target_user_id,
     from_cache |-> FALSE]

\* PathfindingService._format_path_response, and from_cache = False of
\* find_path; the wall-clock fields are left out
_format_path_response(path_result, start_user_id, target_user_id) ==
    [found |-> path_result.found, path |-> path_result.path,
     degrees_of_separation |-> path_result.distance,
     nodes_explored |-> path_result.nodes_explored,
     start_user_id |-> start_user_id, target_user_id |-> target_user_id,
     from_cache |-> FALSE]

\* cached_result['from_cache'] = True when cached_result is the dict the
\* cache holds: the entry was just moved to the end of the OrderedDict
MarkFromCache(c) ==
    [c EXCEPT !._cache[Len(c._cache)].value.from_cache = TRUE]

\* find_path lines 62-66: total_queries += 1 under _metrics_lock
FindPath(t, start_user_id, target_user_id, use_cache) ==
    /\ th[t].pc = "idle"
    /\ query_metrics.total_queries < MaxQueries
    /\ th' = [th EXCEPT ![t] = [IdleLocals EXCEPT
                  !.pc = "svc_check", !.svc = TRUE, !.use_cache = use_cache,
                  !.start = start_user_id, !.target = target_user_id]]
    /\ query_metrics' = [query_metrics EXCEPT !.total_queries = @ + 1]
    /\ UNCHANGED <<dbVars, last, cache, now>>

\* find_path lines 69-88: the cache lookup; on a hit the response, on a miss
\* the first lines of find_shortest_path (enable_caching is always True)
FindPathCacheCheck(t) ==
    /\ th[t].pc = "svc_check"
    /\ LET l == th[t]
           r == get_path(cache, l.start, l.target, now)
       IN  IF l.use_cache /\ r.hit
           THEN /\ cache' = IF r.stored THEN MarkFromCache(r.cache) ELSE r.cache
                /\ query_metrics' = [query_metrics EXCEPT
                                        !.cache_hits = @ + 1,
                                        !.successful_queries = @ + 1]
                /\ th' = [th EXCEPT ![t] = [l EXCEPT
                              !.pc = "svc_done",
                              !.response = [r.ret EXCEPT !.from_cache = TRUE]]]
           ELSE /\ cache' = IF l.use_cache THEN r.cache ELSE cache
                /\ query_metrics' = IF l.use_cache
                                    THEN [query_metrics EXCEPT !.cache_misses = @ + 1]
                                    ELSE query_metrics
                /\ th' = [th EXCEPT ![t] =
                              FindShortestPathEntry(l, l.start, l.target)]
    /\ UNCHANGED <<dbVars, last, now>>

\* faulty variant: the response is cached whether or not a path was found
FindPathFinishCachesAll(t) ==
    /\ th[t].pc = "bfs_done"
    /\ th[t].svc
    /\ LET l == th[t]
           response == _format_path_response(l.result, l.start, l.target)
       IN  /\ cache' = IF l.use_cache
                       THEN cache_path(cache, l.start, l.target, response, now)
                       ELSE cache
           /\ query_metrics' = IF l.result.found
                               THEN [query_metrics EXCEPT !.successful_queries = @ + 1]
                               ELSE [query_metrics EXCEPT !.failed_queries = @ + 1]
           /\ th' = [th EXCEPT ![t] = [l EXCEPT !.pc = "svc_done",
                                                !.response = response]]
    /\ UNCHANGED <<dbVars, last, now>>

\* faulty variant: a search that found no path is not counted as failed
FindPathFinishCountsFound(t) ==
    /\ th[t].pc = "bfs_done"
    /\ th[t].svc
    /\ LET l == th[t]
           response == _format_path_response(l.result, l.start, l.target)
       IN  /\ cache' = IF l.use_cache /\ l.result.found
                       THEN cache_path(cache, l.start, l.target, response, now)
                       ELSE cache
           /\ query_metrics' = IF l.result.found
                               THEN [query_metrics EXCEPT !.successful_queries = @ + 1]
                               ELSE query_metrics
           /\ th' = [th EXCEPT ![t] = [l EXCEPT !.pc = "svc_done",
                                                !.response = response]]
    /\ UNCHANGED <<dbVars, last, now>>

\* find_path lines 91-105: format the response, cache a found result, count
\* the outcome
FindPathFinish(t) ==
    /\ th[t].pc = "bfs_done"
    /\ th[t].svc
    /\ LET l == th[t]
           response == _format_path_response(l.result, l.start, l.target)
       IN  /\ cache' = IF l.use_cache /\ l.result.found
                       THEN cache_path(cache, l.start, l.target, response, now)
                       ELSE cache
           /\ query_metrics' = IF l.result.found
                               THEN [query_metrics EXCEPT !.successful_queries = @ + 1]
                               ELSE [query_metrics EXCEPT !.failed_queries = @ + 1]
           /\ th' = [th EXCEPT ![t] = [l EXCEPT !.pc = "svc_done",
                                                !.response = response]]
    /\ UNCHANGED <<dbVars, last, now>>

\* find_path returns its response (the record of the call also says
\* whether it was made with use_cache)
FindPathReturn(t) ==
    /\ th[t].pc = "svc_done"
    /\ last' = Call("find_path", th[t].start, th[t].target, th[t].response)
                @@ [use_cache |-> th[t].use_cache]
    /\ th' = [th EXCEPT ![t] = IdleLocals]
    /\ UNCHANGED <<dbVars, svcVars>>

\* faulty variant: the cached paths of both users are invalidated whatever
\* the database call returned
AfterMutationAlways(op, from_user_id, to_user_id, r) ==
    LET i1 == invalidate_user_paths(cache, from_user_id)
        i2 == invalidate_user_paths(i1.cache, to_user_id)
    IN  /\ DbBecomes(r.db)
        /\ th' = ThreadsSee(r.db.connections)
        /\ cache' = i2.cache
        /\ last' = Call(op, from_user_id, to_user_id, r.ret)
                    @@ [invalidated |-> i1.ret + i2.ret]
        /\ UNCHANGED <<dbOp, now, query_metrics>>

\* PathfindingService.add_connection / remove_connection lines 218-224 and
\* 231-237 after the database call returned r: on success the cached paths
\* of both users are invalidated. The record of the call says how many
\* entries were deleted.
AfterMutation(op, from_user_id, to_user_id, r) ==
    LET i1 == invalidate_user_paths(cache, from_user_id)
        i2 == invalidate_user_paths(i1.cache, to_user_id)
    IN  /\ DbBecomes(r.db)
        /\ th' = ThreadsSee(r.db.connections)
        /\ cache' = IF r.ret = TRUE THEN i2.cache ELSE cache
        /\ last' = Call(op, from_user_id, to_user_id, r.ret)
                    @@ [invalidated |-> IF r.ret = TRUE THEN i1.ret + i2.ret ELSE 0]
        /\ UNCHANGED <<dbOp, now, query_metrics>>

\* PathfindingService.add_connection called by thread t
ServiceAddConnection(t, from_user_id, to_user_id) ==
    /\ th[t].pc = "idle"
    /\ dbOp = NoOp
    /\ connection_count < MaxConnCount + NumApiUsers
    /\ AfterMutation("service.add_connection", from_user_id, to_user_id,
                     add_connection(DB, from_user_id, to_user_id))

\* PathfindingService.remove_connection called by thread t
ServiceRemoveConnection(t, from_user_id, to_user_id) ==
    /\ th[t].pc = "idle"
    /\ dbOp = NoOp
    /\ AfterMutation("service.remove_connection", from_user_id, to_user_id,
                     remove_connection(DB, from_user_id, to_user_id))

\* time passes
Tick(dt) ==
    /\ now + dt <= MaxTime
    /\ now' = now + dt
    /\ UNCHANGED <<dbVars, last, th, cache, query_metrics>>

\* ---------------------------------------------- the LRUCache used directly
\* The record of a completed LRUCache call also carries log, the calls made
\* so far, oldest first.
LruLog == IF "log" \in DOMAIN last THEN last.log ELSE << >>

LruCall(op, key, ret) ==
    Call(op, key, None, ret) @@ [log |-> Append(LruLog, <<op, key>>)]

\* LRUCache.put(key, value, ttl)
LruPut(key, value, ttl) ==
    /\ Len(LruLog) < MaxLruCalls
    /\ cache' = put(cache, key, value, ttl, now, CacheSize)
    /\ last' = LruCall("put", key, None)
    /\ UNCHANGED <<dbVars, th, now, query_metrics>>

\* LRUCache.get(key)
LruGet(key) ==
    /\ Len(LruLog) < MaxLruCalls
    /\ LET r == get(cache, key, now)
       IN  /\ cache' = r.cache
           /\ last' = LruCall("get", key, IF r.hit THEN r.ret ELSE None)
    /\ UNCHANGED <<dbVars, th, now, query_metrics>>

\* LRUCache.delete(key)
LruDelete(key) ==
    /\ Len(LruLog) < MaxLruCalls
    /\ LET r == delete(cache, key)
       IN  /\ cache' = r.cache
           /\ last' = LruCall("delete", key, r.ret)
    /\ UNCHANGED <<dbVars, th, now, query_metrics>>

\* LRUCache.clear()
LruClear ==
    /\ Len(LruLog) < MaxLruCalls
    /\ cache' = clear(cache)
    /\ last' = LruCall("clear", None, None)
    /\ UNCHANGED <<dbVars, th, now, query_metrics>>

\* ------------------------------------------ a caller of get_connections
\* GraphDatabase.get_connections called by thread t, which keeps the set
GetConnections(t, user_id) ==
    /\ th[t].pc = "idle"
    /\ th' = [th EXCEPT ![t] = [IdleLocals EXCEPT
                  !.pc = "holding", !.start = user_id,
                  !.neighbors = SetCopy(user_id, get_connections(user_id))]]
    /\ UNCHANGED <<dbVars, last, svcVars>>

\* the caller adds x to (add = TRUE) or discards x from the set it was
\* given; if that set is a stored one, the graph changes with it
MutateReturned(t, x, add) ==
    /\ th[t].pc = "holding"
    /\ LET obj == th[t].neighbors
           new == IF add THEN Elems(obj) \cup {x} ELSE Elems(obj) \ {x}
       IN  /\ th' = [th EXCEPT ![t].neighbors.elems = new]
           /\ connections' = IF obj.alias = None THEN connections
                              ELSE [connections EXCEPT ![obj.alias] = new]
    /\ UNCHANGED <<users, connection_count, shard_users, local_edges,
                   remote_edges, dbOp, last, svcVars>>

\* the caller lets go of the set
ReleaseReturned(t) ==
    /\ th[t].pc = "holding"
    /\ th' = [th EXCEPT ![t] = IdleLocals]
    /\ UNCHANGED <<dbVars, last, svcVars>>

\* the state after PathfindingService() / GraphDatabase() is constructed
Init ==
    /\ DbIs(EmptyDb)
    /\ dbOp = NoOp
    /\ last = NoCall
    /\ th = [t \in Threads |-> IdleLocals]
    /\ SvcIs(EmptyCache, 0, InitialMetrics)

\* ------------------------------------------- the database, called directly
NextDB ==
    \/ \E n \in Usernames, id \in ApiIds \cup {None} : AddUser(n, id)
    \/ \E a \in ApiIds, b \in ApiIds : AddConnection(a, b)
    \/ \E a \in ApiIds, b \in ApiIds : RemoveConnection(a, b)

SpecDB == Init /\ [][NextDB]_vars

\* --------------------------------------- the search on a family of graphs
\* The graphs the search is run on: every user of GraphIds exists, GhostId
\* does not, and the edges are any subset of a chain u1-u2-...-uN with
\* three chords.
CandidateEdges ==
    {<<IdNames[i], IdNames[i + 1]>> : i \in 1..(NumUsers - 1)}
    \cup {<<IdNames[1], IdNames[3]>>, <<IdNames[2], IdNames[4]>>,
          <<IdNames[NumUsers - 2], IdNames[NumUsers]>>}

RECURSIVE AddUsers(_, _)
AddUsers(d, ids) ==
    IF ids = {} THEN d
    ELSE LET id == CHOOSE x \in ids : TRUE
         IN  AddUsers(add_user(d, "alice", id), ids \ {id})

RECURSIVE AddConnections(_, _)
AddConnections(d, edges) ==
    IF edges = {} THEN d
    ELSE LET e == CHOOSE x \in edges : TRUE
         IN  AddConnections(add_connection(d, e[1], e[2]).db, edges \ {e})

\* the database after add_user of every id and add_connection of every edge
BuildDb(ids, edges) == AddConnections(AddUsers(EmptyDb, ids), edges)

InitBFS ==
    /\ \E edges \in SUBSET CandidateEdges : DbIs(BuildDb(GraphIds, edges))
    /\ dbOp = NoOp
    /\ last = NoCall
    /\ th = [t \in Threads |-> IdleLocals]
    /\ SvcIs(EmptyCache, 0, InitialMetrics)

NextBFS ==
    \/ \E s \in Ids, g \in Ids : FindShortestPath(1, s, g)
    \/ BfsLoop(1)
    \/ BfsExpandNode(1)
    \/ BfsExpandEnd(1)
    \/ BfsReturn(1)

SpecBFS == InitBFS /\ [][NextBFS]_vars

\* the same, with a thread that keeps running: a step of the search that
\* can be taken is taken
SearchSteps == BfsLoop(1) \/ BfsExpandNode(1) \/ BfsExpandEnd(1)

SpecBFSLive == InitBFS /\ [][NextBFS]_vars /\ WF_vars(SearchSteps)

\* ------------------------------- the search while the graph is mutated
\* One thread runs find_shortest_path; other threads add users and add and
\* remove connections. The mutations exclude each other (GraphDatabase._lock)
\* but not the reads of the search.
ConcIds == {IdNames[i] : i \in 1..(NumApiUsers + 1)}

\* the connections the mutating threads add and remove
ConcPairs ==
    {<<IdNames[1], IdNames[2]>>, <<IdNames[1], IdNames[3]>>,
     <<IdNames[NumApiUsers + 1], IdNames[2]>>, <<IdNames[2], IdNames[1]>>,
     <<IdNames[3], IdNames[3]>>}

\* the queries of the searching thread
ConcQueries ==
    {<<IdNames[1], IdNames[NumApiUsers + 1]>>,
     <<IdNames[NumApiUsers + 1], IdNames[1]>>,
     <<IdNames[2], IdNames[3]>>}

NextConc ==
    \/ \E id \in ConcIds : AddUser("alice", id)
    \/ \E p \in ConcPairs : AddConnectionBegin(p[1], p[2])
    \/ AddConnectionEnd
    \/ \E p \in ConcPairs : RemoveConnectionBegin(p[1], p[2])
    \/ RemoveConnectionEnd
    \/ \E q \in ConcQueries : FindShortestPath(1, q[1], q[2])
    \/ BfsLoop(1)
    \/ BfsExpandNode(1)
    \/ BfsExpandEnd(1)
    \/ BfsReturn(1)

SpecConc == Init /\ [][NextConc]_vars

\* the steps the clock is moved by
TickSteps == {CleanupInterval, PathTtl + 1}

\* ------------------------------------------ the service, called in sequence
\* The users are those of ConcIds; the first has two neighbours, and the
\* last is two steps from it through one of them (the search from the first
\* to the last returns a path of two users). One more id is queried that is
\* no user.
SvcEdges ==
    {<<IdNames[1], IdNames[2]>>, <<IdNames[1], IdNames[3]>>,
     <<IdNames[2], IdNames[NumApiUsers + 1]>>}

SvcGhostId == IdNames[NumApiUsers + 2]

InitSvc ==
    /\ DbIs(BuildDb(ConcIds, SvcEdges))
    /\ dbOp = NoOp
    /\ last = NoCall
    /\ th = [t \in Threads |-> IdleLocals]
    /\ SvcIs(EmptyCache, 0, InitialMetrics)

\* the queries: two self-queries (a user, and an id that is no user), a
\* pair in both directions, and a pair with an unknown end
SvcQueries ==
    {<<IdNames[1], IdNames[1]>>,
     <<SvcGhostId, SvcGhostId>>,
     <<IdNames[1], IdNames[NumApiUsers + 1]>>,
     <<IdNames[NumApiUsers + 1], IdNames[1]>>,
     <<IdNames[1], SvcGhostId>>}

NextSvc ==
    \/ \E q \in SvcQueries, use_cache \in BOOLEAN :
           FindPath(1, q[1], q[2], use_cache)
    \/ FindPathCacheCheck(1)
    \/ BfsLoop(1)
    \/ BfsExpandNode(1)
    \/ BfsExpandEnd(1)
    \/ FindPathFinish(1)
    \/ FindPathReturn(1)
    \/ \E dt \in TickSteps : Tick(dt)

SpecSvc == InitSvc /\ [][NextSvc]_vars

\* ---------------------------------------------------- the LRUCache alone
\* the keys that are put, and the value: it is put together with the time
\* of the put
LruKeys == {"k1", "k2", "k3", "k4"}
LruValue == "v"

NextLRU ==
    \/ \E key \in LruKeys : LruPut(key, <<LruValue, now>>, PathTtl)
    \/ \E key \in LruKeys : LruGet(key)
    \/ \E key \in LruKeys : LruDelete(key)
    \/ LruClear
    \/ \E dt \in TickSteps : Tick(dt)

SpecLRU == Init /\ [][NextLRU]_vars

\* ------------------------------ the service, queried and mutated in sequence
\* The users are those of ConcIds, in a chain; FarId is an id that is no
\* user and has the first user's id as a prefix.
MutEdges == {<<IdNames[i], IdNames[i + 1]>> : i \in 1..NumApiUsers}

FarId == IdNames[10]

\* the queries: the two ends of the chain, the first user and the third,
\* and two self-queries
MutQueries ==
    {<<IdNames[1], IdNames[NumApiUsers + 1]>>, <<IdNames[1], IdNames[3]>>,
     <<IdNames[2], IdNames[2]>>, <<FarId, FarId>>}

\* the connections added and removed: an inner link of the chain, its
\* first link, and a self-loop
MutPairs ==
    {<<IdNames[2], IdNames[3]>>, <<IdNames[1], IdNames[2]>>,
     <<IdNames[1], IdNames[1]>>}

InitMut ==
    /\ DbIs(BuildDb(ConcIds, MutEdges))
    /\ dbOp = NoOp
    /\ last = NoCall
    /\ th = [t \in Threads |-> IdleLocals]
    /\ SvcIs(EmptyCache, 0, InitialMetrics)

NextMut ==
    \/ \E q \in MutQueries, use_cache \in BOOLEAN :
           FindPath(1, q[1], q[2], use_cache)
    \/ FindPathCacheCheck(1)
    \/ BfsLoop(1)
    \/ BfsExpandNode(1)
    \/ BfsExpandEnd(1)
    \/ FindPathFinish(1)
    \/ FindPathReturn(1)
    \/ \E p \in MutPairs : ServiceAddConnection(1, p[1], p[2])
    \/ \E p \in MutPairs : ServiceRemoveConnection(1, p[1], p[2])

SpecMut == InitMut /\ [][NextMut]_vars

\* ------------------- the service, queried by one thread, mutated by another
\* Thread 1 calls find_path; thread 2 calls add_connection and
\* remove_connection of the service between any two steps of thread 1.
\* The graph and the queries are those of the service alone.
RacePairs ==
    {<<IdNames[1], IdNames[2]>>, <<IdNames[2], IdNames[NumApiUsers + 1]>>,
     <<IdNames[1], IdNames[1]>>}

NextRace ==
    \/ \E q \in SvcQueries, use_cache \in BOOLEAN :
           FindPath(1, q[1], q[2], use_cache)
    \/ FindPathCacheCheck(1)
    \/ BfsLoop(1)
    \/ BfsExpandNode(1)
    \/ BfsExpandEnd(1)
    \/ FindPathFinish(1)
    \/ FindPathReturn(1)
    \/ \E p \in RacePairs : ServiceAddConnection(2, p[1], p[2])
    \/ \E p \in RacePairs : ServiceRemoveConnection(2, p[1], p[2])

SpecRace == InitSvc /\ [][NextRace]_vars

\* ------------------------------ the service on a graph with a long route
\* Six users; the first two are four connections apart, over the third, the
\* fifth and the fourth, and the sixth hangs on the fifth. The connection
\* added joins the third and the fourth, or is one that exists.
ShortIds == {IdNames[i] : i \in 1..6}

ShortEdges ==
    {<<IdNames[1], IdNames[3]>>, <<IdNames[2], IdNames[4]>>,
     <<IdNames[3], IdNames[5]>>, <<IdNames[4], IdNames[5]>>,
     <<IdNames[5], IdNames[6]>>}

ShortQueries == {<<IdNames[1], IdNames[2]>>, <<IdNames[2], IdNames[1]>>}

ShortPairs == {<<IdNames[3], IdNames[4]>>, <<IdNames[5], IdNames[6]>>}

InitShort ==
    /\ DbIs(BuildDb(ShortIds, ShortEdges))
    /\ dbOp = NoOp
    /\ last = NoCall
    /\ th = [t \in Threads |-> IdleLocals]
    /\ SvcIs(EmptyCache, 0, InitialMetrics)

NextShort ==
    \/ \E q \in ShortQueries, use_cache \in BOOLEAN :
           FindPath(1, q[1], q[2], use_cache)
    \/ FindPathCacheCheck(1)
    \/ BfsLoop(1)
    \/ BfsExpandNode(1)
    \/ BfsExpandEnd(1)
    \/ FindPathFinish(1)
    \/ FindPathReturn(1)
    \/ \E p \in ShortPairs : ServiceAddConnection(1, p[1], p[2])

SpecShort == InitShort /\ [][NextShort]_vars

\* ------------------------------- the service, queried by several threads
\* Every thread calls find_path; the steps of the calls interleave. Each
\* step that changes query_metrics does so under _metrics_lock.
ParQueries ==
    {<<IdNames[1], IdNames[NumApiUsers + 1]>>, <<IdNames[1], SvcGhostId>>}

NextPar ==
    \/ \E t \in Threads, q \in ParQueries, use_cache \in BOOLEAN :
           FindPath(t, q[1], q[2], use_cache)
    \/ \E t \in Threads : FindPathCacheCheck(t)
    \/ \E t \in Threads : BfsLoop(t)
    \/ \E t \in Threads : BfsExpandNode(t)
    \/ \E t \in Threads : BfsExpandEnd(t)
    \/ \E t \in Threads : FindPathFinish(t)
    \/ \E t \in Threads : FindPathReturn(t)

SpecPar == InitSvc /\ [][NextPar]_vars

\* ---------------------------------------------- the locks of the service
\* The three locks: GraphDatabase._lock and LRUCache._lock are RLocks,
\* PathfindingService._metrics_lock is a Lock.
GraphLock == "GraphDatabase._lock"

CacheLock == "LRUCache._lock"

MetricsLock == "PathfindingService._metrics_lock"

Reentrant(lock) == lock \in {GraphLock, CacheLock}

\* An operation is the sequence of its sections; a section is the sequence
\* of the locks whose with blocks are entered one inside the other, and is
\* empty for code that runs with no lock (an adjacency read of the search).
\* faulty variant: the cache lookup is made inside the with block of
\* total_queries
find_path_locksNested ==
    {<< <<MetricsLock, CacheLock>>, <<MetricsLock>> >>}

\* find_path: total_queries, the cache lookup, then either the hit counters
\* or cache_misses, the search, cache_path of a found result, the outcome
find_path_locks ==
    {<< <<MetricsLock>>, <<CacheLock>>, <<MetricsLock>> >>,
     << <<MetricsLock>>, <<CacheLock>>, <<MetricsLock>>, << >>, << >>,
        <<CacheLock>>, <<MetricsLock>> >>,
     << <<MetricsLock>>, <<CacheLock>>, <<MetricsLock>>, << >>,
        <<MetricsLock>> >>,
     << <<MetricsLock>>, << >>, << >>, <<MetricsLock>> >>}

\* add_connection and remove_connection of the service: the database call,
\* and on success invalidate_user_paths of both users, each the scan of the
\* keys and a delete for every key found (none, or one)
mutation_locks ==
    {<< <<GraphLock>> >>,
     << <<GraphLock>>, <<CacheLock>>, <<CacheLock>> >>,
     << <<GraphLock>>, <<CacheLock>>, <<CacheLock>>, <<CacheLock>> >>,
     << <<GraphLock>>, <<CacheLock>>, <<CacheLock>>, <<CacheLock>>,
        <<CacheLock>> >>}

\* get_service_stats: the copy of the metrics, get_database_stats,
\* get_cache_stats
get_service_stats_locks ==
    {<< <<MetricsLock>>, <<GraphLock>>, <<CacheLock>> >>}

LockOps == {"find_path", "add_connection", "remove_connection",
            "get_service_stats"}

LocksOf(op) ==
    CASE op = "find_path" -> find_path_locks
      [] op \in {"add_connection", "remove_connection"} -> mutation_locks
      [] op = "get_service_stats" -> get_service_stats_locks

\* the locals of a thread: the operation, its sections from the current one
\* on, the locks still to take in the current section, the locks held
LockIdle == [pc |-> "idle", op |-> None, script |-> << >>, todo |-> << >>,
             held |-> << >>]

Holds(t, lock) == \E i \in 1..Len(th[t].held) : th[t].held[i] = lock

\* thread t calls op
LockCall(t, op) ==
    /\ th[t].pc = "idle"
    /\ \E script \in LocksOf(op) :
          th' = [th EXCEPT ![t] = [pc |-> "running", op |-> op,
                                   script |-> script, todo |-> Head(script),
                                   held |-> << >>]]
    /\ UNCHANGED <<dbVars, last, svcVars>>

\* thread t enters a with block: the lock is free, or it is an RLock that
\* t holds
LockAcquire(t) ==
    /\ th[t].pc = "running"
    /\ th[t].todo # << >>
    /\ LET lock == Head(th[t].todo)
       IN  /\ \A u \in Threads \ {t} : ~Holds(u, lock)
           /\ Holds(t, lock) => Reentrant(lock)
           /\ th' = [th EXCEPT ![t].todo = Tail(@),
                               ![t].held = Append(@, lock)]
    /\ UNCHANGED <<dbVars, last, svcVars>>

\* thread t leaves the innermost with block
LockRelease(t) ==
    /\ th[t].pc = "running"
    /\ th[t].todo = << >>
    /\ th[t].held # << >>
    /\ th' = [th EXCEPT ![t].held = SubSeq(@, 1, Len(@) - 1)]
    /\ UNCHANGED <<dbVars, last, svcVars>>

\* thread t goes on to its next section, or returns
LockAdvance(t) ==
    /\ th[t].pc = "running"
    /\ th[t].todo = << >>
    /\ th[t].held = << >>
    /\ th' = [th EXCEPT ![t] =
                 IF Len(th[t].script) = 1 THEN LockIdle
                 ELSE [th[t] EXCEPT !.script = Tail(@),
                                    !.todo = Head(Tail(th[t].script))]]
    /\ UNCHANGED <<dbVars, last, svcVars>>

InitLocks ==
    /\ DbIs(EmptyDb)
    /\ dbOp = NoOp
    /\ last = NoCall
    /\ th = [t \in Threads |-> LockIdle]
    /\ SvcIs(EmptyCache, 0, InitialMetrics)

NextLocks ==
    \/ \E t \in Threads, op \in LockOps : LockCall(t, op)
    \/ \E t \in Threads : LockAcquire(t)
    \/ \E t \in Threads : LockRelease(t)
    \/ \E t \in Threads : LockAdvance(t)

SpecLocks == InitLocks /\ [][NextLocks]_vars

\* ------------------------- a caller of get_connections beside mutations
NextSnap ==
    \/ \E id \in ApiIds : AddUser("alice", id)
    \/ \E a \in ApiIds, b \in ApiIds : AddConnection(a, b)
    \/ \E a \in ApiIds, b \in ApiIds : RemoveConnection(a, b)
    \/ \E u \in ConcIds : GetConnections(1, u)
    \/ \E x \in ApiIds, add \in BOOLEAN : MutateReturned(1, x, add)
    \/ ReleaseReturned(1)

SpecSnap == Init /\ [][NextSnap]_vars

\* ------------------------------------------------- claims about the search
\* the call of thread 1 has its PathResult
SearchDone == th[1].pc = "bfs_done"

\* the fewest-edges distance from s to g in the current adjacency; -1 when
\* g cannot be reached from s
RECURSIVE DistanceFrom(_, _, _)
DistanceFrom(reached, g, k) ==
    LET next == reached \cup UNION {get_connections(u) : u \in reached}
    IN  IF g \in reached THEN k
        ELSE IF next = reached THEN -1
        ELSE DistanceFrom(next, g, k + 1)

TrueDistance(s, g) == DistanceFrom({s}, g, 0)

BothExist == user_exists(th[1].start) /\ user_exists(th[1].target)

\* C1: a found path of a query between two distinct existing users starts
\* at start and ends at target.
C1_PathJoinsStartToTarget ==
    (SearchDone /\ th[1].result.found /\ BothExist /\ th[1].start # th[1].target)
    => LET p == th[1].result.path
       IN  p[1] = th[1].start /\ p[Len(p)] = th[1].target

\* C2: the distance of a found result between existing users is the true
\* fewest-edges distance.
C2_DistanceIsShortest ==
    (SearchDone /\ th[1].result.found /\ BothExist)
    => th[1].result.distance = TrueDistance(th[1].start, th[1].target)

\* C3: a pair of existing users at true distance 1..MaxDepth is found.
C3_FoundWithinDiameter ==
    (SearchDone /\ BothExist
       /\ TrueDistance(th[1].start, th[1].target) \in 1..MaxDepth)
    => th[1].result.found

\* C4: no returned path has more than MaxDepth edges, and a pair further
\* apart than MaxDepth (or not connected at all) gets found = false with
\* distance -1.
C4_DiameterCap ==
    SearchDone =>
        LET r == th[1].result
            d == TrueDistance(th[1].start, th[1].target)
        IN  /\ r.found => Len(r.path) - 1 <= MaxDepth
            /\ (d > MaxDepth \/ d = -1) => (~r.found /\ r.distance = -1)

\* the two ends of a chain longer than MaxDepth were queried
C4_Witness ==
    /\ SearchDone
    /\ TrueDistance(th[1].start, th[1].target) > MaxDepth
    /\ ~th[1].result.found

\* C5: a query with an endpoint that is not a user gets found = false,
\* distance -1 and no path, also when start = target.
C5_UnknownEndpointNotFound ==
    (SearchDone /\ ~BothExist)
    => LET r == th[1].result
       IN  ~r.found /\ r.distance = -1 /\ r.path = None

\* C7: found = false comes with no path and distance -1; found = true with
\* a non-empty path and distance = len(path) - 1 >= 0.
C7_ResultShape ==
    SearchDone =>
        LET r == th[1].result
        IN  /\ ~r.found => (r.path = None /\ r.distance = -1)
            /\ r.found => /\ r.path # None
                          /\ Len(r.path) > 0
                          /\ r.distance = Len(r.path) - 1
                          /\ r.distance >= 0

\* a search between two distinct users returned a path of several users
C7_Witness ==
    /\ SearchDone
    /\ th[1].result.found
    /\ th[1].start # th[1].target
    /\ Len(th[1].result.path) >= 2

\* --------------------------------- claims about the search under mutation
\* C8: every consecutive pair of a path returned while other threads add
\* and remove connections was adjacent at some instant of the call.
C8_PathEdgesExistedDuringCall ==
    (SearchDone /\ th[1].result.found)
    => LET p == th[1].result.path
       IN  \A i \in 1..(Len(p) - 1) : {p[i], p[i + 1]} \in th[1].seen

\* a returned path has a pair that is no longer adjacent: the connection
\* was removed while the search ran
C8_Witness ==
    /\ SearchDone
    /\ th[1].result.found
    /\ Len(th[1].result.path) >= 2
    /\ {th[1].result.path[1], th[1].result.path[2]} \notin EdgesOf(connections)

\* ------------------------------------------------ claims about the database
\* C9: whenever no mutation is in progress, v is in get_connections(u)
\* exactly when u is in get_connections(v).
C9_AdjacencySymmetric ==
    dbOp = NoOp =>
        \A u \in Ids, v \in Ids :
            v \in get_connections(u) <=> u \in get_connections(v)

\* a connection was removed and another one is still there
C9_Witness ==
    /\ dbOp = NoOp
    /\ last.op = "remove_connection"
    /\ last.ret = TRUE
    /\ \E u \in Ids : get_connections(u) # {}

NoSelfLoop == \A u \in Ids : u \notin get_connections(u)

\* a step that is a call add_connection(a, b) with a = b or with an endpoint
\* that is no user returns false and leaves every neighbourhood as it was
RejectedAddStep ==
    (/\ last'.op = "add_connection"
     /\ \/ last'.a = last'.b
        \/ ~user_exists(last'.a)
        \/ ~user_exists(last'.b))
    => (last'.ret = FALSE /\ connections' = connections)

\* C10: add_connection(a, b) with a = b or an unknown endpoint returns
\* false and changes no adjacency; no state has u in get_connections(u).
C10_RejectedAddConnection == [][RejectedAddStep]_vars /\ []NoSelfLoop

\* add_connection(u, u) of an existing user u returned false
C10_Witness ==
    /\ last.op = "add_connection"
    /\ last.a = last.b
    /\ user_exists(last.a)
    /\ last.ret = FALSE

\* ------------------------------------------------ claims about self-queries
\* find_path of thread 1 has its response
ServiceDone == th[1].pc = "svc_done"

\* C6: a query with start = target gets found = true, the path [start] and
\* distance 0 from find_shortest_path, and degrees_of_separation 0 from
\* find_path, on a search and on a cache hit alike.
C6_SelfQuery ==
    /\ (SearchDone /\ th[1].start = th[1].target)
       => /\ th[1].result.found
          /\ th[1].result.path = <<th[1].start>>
          /\ th[1].result.distance = 0
    /\ (ServiceDone /\ th[1].start = th[1].target)
       => th[1].response.degrees_of_separation = 0

\* a self-query was answered from the cache
C6_Witness ==
    /\ ServiceDone
    /\ th[1].start = th[1].target
    /\ th[1].response.from_cache
    /\ th[1].response.degrees_of_separation = 0
    /\ query_metrics.cache_misses > 0

\* ------------------------------------------- claims about repeated mutations
\* a step that is a call add_connection(a, b) while b is already a
\* neighbour of a returns false and leaves the database as it was
DuplicateAddStep ==
    (/\ last'.op = "add_connection"
     /\ last'.b \in get_connections(last'.a))
    => (last'.ret = FALSE /\ UNCHANGED dbVars)

\* C11: add_connection of a connection that is already there returns false
\* and changes neither the adjacency nor the counters.
C11_DuplicateAddConnection == [][DuplicateAddStep]_vars

\* a step that is a call remove_connection(a, b): it returns true only if
\* each was a neighbour of the other, and it returns false with every
\* neighbourhood as before when the connection is absent or an end unknown
RemoveStep ==
    last'.op = "remove_connection"
    => /\ last'.ret = TRUE
          => /\ last'.b \in get_connections(last'.a)
             /\ last'.a \in get_connections(last'.b)
       /\ (\/ last'.b \notin get_connections(last'.a)
           \/ ~user_exists(last'.a)
           \/ ~user_exists(last'.b))
          => /\ last'.ret = FALSE
             /\ \A u \in Ids : get_connections(u)' = get_connections(u)

\* C12: remove_connection returns true only for a connection present in
\* both neighbourhoods, and false without touching the adjacency otherwise.
C12_RemoveConnection == [][RemoveStep]_vars

\* a second remove_connection of the same connection returned false
C12_Witness ==
    /\ last.op = "remove_connection"
    /\ last.ret = FALSE
    /\ user_exists(last.a)
    /\ user_exists(last.b)
    /\ last.a # last.b
    /\ connection_count > 0
    /\ \A u \in Ids : get_connections(u) = {}

\* a step that is remove_connection(a, b) right after a successful
\* add_connection(a, b) of a connection that was not there: every
\* neighbourhood is what it was before the add
RoundTripStep ==
    (/\ last.op = "add_connection"
     /\ last.ret = TRUE
     /\ last.b \notin DictGetSet(last.before, last.a)
     /\ last'.op = "remove_connection"
     /\ last'.a = last.a
     /\ last'.b = last.b)
    => /\ last'.ret = TRUE
       /\ \A u \in Ids : get_connections(u)' = DictGetSet(last.before, u)

\* C13: add_connection(a, b) followed by remove_connection(a, b), for users
\* a # b without a connection, leaves every get_connections(u) as it was.
C13_AddRemoveRoundTrip == [][RoundTripStep]_vars

\* the one connection ever added was removed again: the only successful
\* add_connection was of the pair that remove_connection has just removed
C13_Witness ==
    /\ last.op = "remove_connection"
    /\ last.ret = TRUE
    /\ connection_count = 1
    /\ DOMAIN last.before = {last.a, last.b}
    /\ \A u \in Ids : get_connections(u) = {}

\* a step that is a call add_user with the id of a user that exists returns
\* that id and leaves the connections recorded in the user's record, and
\* the adjacency, as they were
ReAddUserStep ==
    (/\ last'.op = "add_user"
     /\ last'.a \in DOMAIN users)
    => /\ last'.ret = last'.a
       /\ users'[last'.a].connections = users[last'.a].connections
       /\ connections' = connections

\* C14: add_user with an id that already exists keeps the stored record,
\* its recorded connections included, and the adjacency.
C14_AddUserIdempotent == [][ReAddUserStep]_vars

\* -------------------------------------------- claims about get_connections
\* the set a caller holds has the elements it was returned with (and those
\* the caller put in or took out itself)
SnapshotKept ==
    th[1].pc = "holding" => Elems(th[1].neighbors) = th[1].neighbors.elems

\* get_connections of an id that is no user returns the empty set, and a
\* caller changing the set it holds leaves the adjacency as it was
SnapshotStep ==
    /\ (th[1].pc = "idle" /\ th'[1].pc = "holding" /\ ~user_exists(th'[1].start))
       => th'[1].neighbors.elems = {}
    /\ (th[1].pc = "holding" /\ th'[1].pc = "holding"
          /\ th'[1].neighbors # th[1].neighbors)
       => connections' = connections

\* C15: get_connections returns the empty set for an unknown user and a
\* snapshot of the caller's own: later mutations of the graph do not change
\* it and changes to it do not change the graph.
C15_GetConnectionsSnapshot == []SnapshotKept /\ [][SnapshotStep]_vars

\* the caller still holds a neighbour that has been removed from the graph
C15_Witness ==
    /\ th[1].pc = "holding"
    /\ last.op = "remove_connection"
    /\ last.ret = TRUE
    /\ th[1].start = last.a
    /\ last.b \in th[1].neighbors.elems
    /\ last.b \notin get_connections(last.a)

\* ------------------------------------------------ claims about the path cache
\* the two orders of a pair have the same key, hit together, and on a hit
\* get paths that are reverses of each other
CacheSymmetric ==
    \A q \in SvcQueries :
        LET a == q[1]
            b == q[2]
            ab == get_path(cache, a, b, now)
            ba == get_path(cache, b, a, now)
        IN  /\ _create_path_key(a, b) = _create_path_key(b, a)
            /\ ab.hit = ba.hit
            /\ ab.hit => ab.ret.path = Reverse(ba.ret.path)

\* the cache lookup of find_path(b, a), right after a found find_path(a, b)
\* that used the cache and while the entry has not expired, is a hit with
\* the reversed path and the same degrees of separation
CacheSymmetryStep ==
    (/\ th[1].pc = "svc_check"
     /\ th[1].use_cache
     /\ last.op = "find_path"
     /\ last.use_cache
     /\ last.ret.found
     /\ th[1].start = last.b
     /\ th[1].target = last.a
     /\ th'[1].pc # "svc_check"
     /\ HasKey(cache, _create_path_key(last.a, last.b))
     /\ ~is_expired(EntryOf(cache, _create_path_key(last.a, last.b)), now))
    => /\ th'[1].pc = "svc_done"
       /\ th'[1].response.from_cache
       /\ th'[1].response.path = Reverse(last.ret.path)
       /\ th'[1].response.degrees_of_separation = last.ret.degrees_of_separation

\* C16: get_path(a, b) and get_path(b, a) hit the same entry and return
\* reversed paths; find_path(b, a) after a found find_path(a, b) is served
\* from the cache with the reversed path and the same distance.
C16_PathCacheSymmetry == []CacheSymmetric /\ [][CacheSymmetryStep]_vars

\* a path of two users was served reversed from the entry the query in the
\* other direction stored
C16_Witness ==
    /\ ServiceDone
    /\ th[1].response.from_cache
    /\ last.op = "find_path"
    /\ last.a = th[1].target
    /\ last.b = th[1].start
    /\ last.a # last.b
    /\ Len(last.ret.path) = 2
    /\ th[1].response.path = Reverse(last.ret.path)
    /\ th[1].response.path # last.ret.path

\* ----------------------------------------------- claims about invalidation
ServiceMutations == {"service.add_connection", "service.remove_connection"}

\* the ids the queries of the mutated service are made of
MutIds == {q[1] : q \in MutQueries} \cup {q[2] : q \in MutQueries}

\* a step that is a successful add_connection(a, b) or remove_connection(a, b)
\* of the service leaves no entry that get_path finds for a pair with a or b
InvalidationStep ==
    (/\ th[1].pc = "idle"
     /\ th'[1].pc = "idle"
     /\ last'.op \in ServiceMutations
     /\ last'.ret = TRUE)
    => \A x \in MutIds, y \in MutIds :
          (x \in {last'.a, last'.b} \/ y \in {last'.a, last'.b})
          => ~get_path(cache', x, y, now').hit

\* C17: right after a successful add_connection(a, b) or
\* remove_connection(a, b) of the service, get_path(x, y) misses for every
\* pair with x or y among a, b.
C17_InvalidationComplete == [][InvalidationStep]_vars

\* a successful mutation deleted cached paths
C17_Witness ==
    /\ last.op \in ServiceMutations
    /\ last.ret = TRUE
    /\ last.invalidated > 0

\* the cache lookup of the first find_path(a, b) after a successful
\* remove_connection(x, y) of the service, with x and y other than a and b
\* and no route left from a to b, is not a hit
InteriorRemovalStep ==
    (/\ th[1].pc = "svc_check"
     /\ th'[1].pc # "svc_check"
     /\ last.op = "service.remove_connection"
     /\ last.ret = TRUE
     /\ {last.a, last.b} \cap {th[1].start, th[1].target} = {}
     /\ BothExist
     /\ TrueDistance(th[1].start, th[1].target) = -1)
    => th'[1].pc # "svc_done"

\* C18: after remove_connection(x, y) cut every route from a to b, x and y
\* being neither a nor b, the next find_path(a, b) is not served from the
\* cache (and so is answered found = false by the search).
C18_InteriorInvalidation == [][InteriorRemovalStep]_vars

\* a step that is a successful add_connection(a, b) or remove_connection(a, b)
\* of the service keeps every entry of a pair that has neither a nor b
AnchoredInvalidationStep ==
    (/\ th[1].pc = "idle"
     /\ th'[1].pc = "idle"
     /\ last'.op \in ServiceMutations
     /\ last'.ret = TRUE)
    => \A i \in 1..Len(cache._cache) :
          LET e == cache._cache[i]
          IN  {e.value.start_user, e.value.target_user} \cap {last'.a, last'.b} = {}
              => HasKey(cache', e.key)

\* C19: invalidate_user_paths(u) deletes only the entries of pairs that
\* have u as an endpoint, also when u is a substring of another id.
C19_AnchoredInvalidation == [][AnchoredInvalidationStep]_vars

\* ------------------------------------------------ claims about the LRUCache
\* the calls so far are puts of pairwise distinct keys
OnlyDistinctPuts ==
    /\ \A i \in 1..Len(LruLog) : LruLog[i][1] = "put"
    /\ \A i, j \in 1..Len(LruLog) : LruLog[i][2] = LruLog[j][2] => i = j

\* the keys stored, oldest first
StoredKeys == [i \in 1..Len(cache._cache) |-> cache._cache[i].key]

\* C20: after puts of M + k distinct keys into an empty LRUCache of
\* capacity M, and nothing else, the first k keys are gone, the last M are
\* stored, and eviction_count is k.
C20_LruEvictionOrder ==
    (OnlyDistinctPuts /\ Len(LruLog) >= CacheSize)
    => LET k == Len(LruLog) - CacheSize
       IN  /\ StoredKeys = [i \in 1..CacheSize |-> LruLog[k + i][2]]
           /\ \A i \in 1..k : ~HasKey(cache, LruLog[i][2])
           /\ cache.eviction_count = k

\* two more distinct keys than the capacity were put
C20_Witness ==
    /\ OnlyDistinctPuts
    /\ Len(LruLog) = CacheSize + 2
    /\ cache.eviction_count = 2

\* C21: after every LRUCache call the number of stored entries is at most
\* max_size.
C21_CapacityInvariant == Len(cache._cache) <= CacheSize

\* the cache is full after a put that evicted
C21_Witness ==
    /\ last.op = "put"
    /\ Len(cache._cache) = CacheSize
    /\ cache.eviction_count > 0

\* the step is a call of LRUCache.get
GetStep == Len(LruLog') = Len(LruLog) + 1 /\ last'.op = "get"

\* a get of a key whose entry was put more than its ttl ago and has not
\* been read since misses, and the entry is gone afterwards
ExpiredGetStep ==
    (/\ GetStep
     /\ HasKey(cache, last'.a)
     /\ EntryOf(cache, last'.a).access_count = 1
     /\ now - EntryOf(cache, last'.a).timestamp > EntryOf(cache, last'.a).ttl)
    => (last'.ret = None /\ ~HasKey(cache', last'.a))

\* C22: an entry put with TTL t and neither read nor put again misses on a
\* get made more than t after the put, and that get removes it.
C22_TtlExpiry == [][ExpiredGetStep]_vars

\* a key was put and the next call, a get of that key, missed
C22_Witness ==
    /\ Len(LruLog) >= 2
    /\ LruLog[Len(LruLog) - 1][1] = "put"
    /\ LruLog[Len(LruLog)][1] = "get"
    /\ LruLog[Len(LruLog) - 1][2] = LruLog[Len(LruLog)][2]
    /\ last.ret = None
    /\ ~HasKey(cache, last.a)

\* ------------------------------------------ claims about the service metrics
\* C23: when no find_path is in progress, every call made was counted as a
\* cache hit or as a cache miss: cache_hits + cache_misses = total_queries.
C23_HitMissAccounting ==
    th[1].pc = "idle"
    => query_metrics.cache_hits + query_metrics.cache_misses
         = query_metrics.total_queries

\* ------------------------------------------------ claims about the shards
\* the adjacency entries <<u, v>> of the current graph
AdjacencyEntries ==
    UNION {{<<u, v>> : v \in connections[u]} : u \in DOMAIN connections}

\* those whose neighbour lives on another shard
CrossEntries ==
    {e \in AdjacencyEntries : get_shard_for_user(e[1]) # get_shard_for_user(e[2])}

\* C24: when no mutation is in progress, the reported cross_shard_ratio is
\* (adjacency entries with the neighbour on another shard) / (adjacency
\* entries), and 0 for a graph without edges.
C24_CrossShardRatio ==
    dbOp = NoOp =>
        LET r == get_database_stats.cross_shard_ratio
        IN  IF AdjacencyEntries = {} THEN r[1] = 0
            ELSE r[1] * Cardinality(AdjacencyEntries)
                   = Cardinality(CrossEntries) * r[2]

\* C25: every user that add_user stored is on the shard get_shard_for_user
\* names and on no other, and the per-shard user counts of the stats sum to
\* total_users.
C25_ShardOwnership ==
    /\ \A id \in DOMAIN users : \A s \in Shards :
          id \in shard_users[s] <=> s = get_shard_for_user(id)
    /\ SumFn([s \in Shards |-> get_database_stats.shard_stats[s].users], Shards)
         = get_database_stats.total_users

\* no step changes the shard of any id
ShardStableStep ==
    \A id \in Ids : get_shard_for_user(id)' = get_shard_for_user(id)

ShardInRange == \A id \in Ids : get_shard_for_user(id) \in Shards

LifetimeStep ==
    (/\ GetStep
     /\ HasKey(cache, last'.a)
     /\ now - EntryOf(cache, last'.a).value[2] > EntryOf(cache, last'.a).ttl)
    => (last'.ret = None /\ ~HasKey(cache', last'.a))

\* C27: the ttl of an entry runs from the put that inserted it; a hit does
\* not extend it.
C27_TtlFromInsertion == [][LifetimeStep]_vars

\* the keys of the stored entries, least recently used first
KeysOf(c) == [i \in 1..Len(c._cache) |-> c._cache[i].key]

\* the keys stored before a step that are still stored after it, in their
\* order before the step
KeysKept == SelectSeq(KeysOf(cache), LAMBDA k : HasKey(cache', k))

\* a get that hits puts its key last in the order and leaves the other keys
\* in their order
GetHitStep ==
    (GetStep /\ last'.ret # None)
    => /\ HasKey(cache, last'.a)
       /\ KeysOf(cache') =
            Append(SelectSeq(KeysKept, LAMBDA k : k # last'.a), last'.a)

\* a get that misses adds no entry, reorders none and changes none
GetMissStep ==
    (GetStep /\ last'.ret = None)
    => /\ KeysOf(cache') = KeysKept
       /\ \A i \in 1..Len(cache'._cache) :
            cache'._cache[i] = EntryOf(cache, cache'._cache[i].key)

\* the put of a new key that follows a get that hit does not evict the key
\* read while another entry is stored
PutAfterHitStep ==
    (/\ Len(LruLog') = Len(LruLog) + 1
     /\ last'.op = "put"
     /\ last.op = "get"
     /\ last.ret # None
     /\ ~HasKey(cache, last'.a)
     /\ Len(cache._cache) > 1)
    => HasKey(cache', last.a)

\* C28: a get that hits makes its key the most recently used one, so that the
\* next put of a new key evicts another entry first; a get that misses
\* changes no entry's recency.
C28_RecencyOnRead ==
    [][GetHitStep /\ GetMissStep /\ PutAfterHitStep]_vars

\* the least recently used key was read and the put of a new key that
\* followed evicted the other entry
C28_Witness ==
    /\ Len(LruLog) = 4
    /\ LruLog[1][1] = "put"
    /\ LruLog[2][1] = "put"
    /\ LruLog[3] = <<"get", LruLog[1][2]>>
    /\ LruLog[4][1] = "put"
    /\ Cardinality({LruLog[1][2], LruLog[2][2], LruLog[4][2]}) = 3
    /\ cache.hit_count = 1
    /\ cache.eviction_count = 1
    /\ KeysOf(cache) = <<LruLog[1][2], LruLog[4][2]>>

\* --------------------------------------------- claims about served responses
\* the cache lookup of find_path that hits leaves the value stored under the
\* key of the query as it was
HitKeepsRecordStep ==
    (/\ th[1].pc = "svc_check"
     /\ th'[1].pc = "svc_done")
    => LET key == _create_path_key(th[1].start, th[1].target)
       IN  /\ HasKey(cache, key)
           /\ HasKey(cache', key)
           /\ EntryOf(cache', key).value = EntryOf(cache, key).value

\* C29: a find_path that hits the cache does not change the stored record,
\* in the direction it was stored and in the reversed direction alike.
C29_HitKeepsStoredRecord == [][HitKeepsRecordStep]_vars

\* C30: every response of find_path(a, b) has start_user_id = a and
\* target_user_id = b and, when found, a path that starts at a, also when it
\* is served from the entry find_path(b, a) stored.
C30_ResponseNamesQuery ==
    ServiceDone
    => /\ th[1].response.start_user_id = th[1].start
       /\ th[1].response.target_user_id = th[1].target
       /\ th[1].response.found => th[1].response.path[1] = th[1].start

\* ------------------------------ claims about the service under concurrency
\* the path p has the users a and b next to each other
PathUses(p, a, b) ==
    \E i \in 1..(Len(p) - 1) : {p[i], p[i + 1]} = {a, b}

\* C31: also beside running find_path calls, once a successful removal of the
\* connection {a, b} has returned, no cache entry keyed on a or b holds a
\* result that was computed from the graph before the removal (here: a path
\* that still walks over {a, b}).
C31_CacheCoherentUnderConcurrency ==
    (/\ last.op = "service.remove_connection"
     /\ last.ret = TRUE)
    => \A i \in 1..Len(cache._cache) :
         LET v == cache._cache[i].value
         IN  ({v.start_user, v.target_user} \cap {last.a, last.b} # {})
             => ~PathUses(v.path, last.a, last.b)

\* ------------------------------------- claims about cached results and adds
\* the locals one turn of the loop of _expand_frontier can leave, the
\* adjacency being the current one
ExpandNodeOutcomes(l) ==
    LET current_user == Head(SideQueue(l))
        c == PopCurrent(l)
        visited == IF l.side = "f" THEN l.fvis ELSE l.bvis
        other_visited == IF l.side = "f" THEN l.bvis ELSE l.fvis
        neighbors == get_connections(current_user)
        meet == neighbors \cap DOMAIN other_visited
    IN  IF TooDeep(l, current_user) THEN {c}
        ELSE IF meet # {} THEN {MeetingReturn(c, m) : m \in meet}
        ELSE {VisitNeighbors(c, current_user, order) :
                 order \in Orders(neighbors \ DOMAIN visited)}

\* the results a search that runs from the locals l to its end on the
\* current graph can return
RECURSIVE SearchOutcomes(_)
SearchOutcomes(l) ==
    IF l.pc = "bfs_done" THEN {l.result}
    ELSE IF l.pc = "bfs_loop" THEN SearchOutcomes(LoopHead(l))
    ELSE IF SideQueue(l) = << >>
    THEN SearchOutcomes(AfterExpand(ExtendQueue(l)))
    ELSE UNION {SearchOutcomes(c) : c \in ExpandNodeOutcomes(l)}

\* the distances find_path(a, b, use_cache=False) can return on the current
\* graph
FreshDistances(a, b) ==
    {_format_path_response(r, a, b).degrees_of_separation :
        r \in SearchOutcomes(FindShortestPathEntry(IdleLocals, a, b))}

\* the first find_path after a successful add_connection, when it is served
\* from the cache, returns a distance a search on the current graph returns
FreshAfterAddStep ==
    (/\ th[1].pc = "svc_check"
     /\ th'[1].pc = "svc_done"
     /\ last.op = "service.add_connection"
     /\ last.ret = TRUE)
    => th'[1].response.degrees_of_separation
          \in FreshDistances(th[1].start, th[1].target)

\* C32: after a successful add_connection(x, y), find_path(a, b) returns the
\* distance a search without the cache returns on the current graph, also
\* for a cached pair with a and b other than x and y.
C32_CacheHidesNoShorterRoute == [][FreshAfterAddStep]_vars

\* ------------------------------------------- claims about failed mutations
\* a step that is an add_connection or remove_connection of the service
\* that returns False leaves the path cache and the adjacency as they were
FailedMutationStep ==
    (/\ th[1].pc = "idle"
     /\ th'[1].pc = "idle"
     /\ last'.op \in ServiceMutations
     /\ last'.ret = FALSE)
    => /\ cache' = cache
       /\ connections' = connections

\* C33: an add_connection or remove_connection of the service that returns
\* False changes neither the entries of the path cache nor the adjacency.
C33_FailedMutationNoEffect == [][FailedMutationStep]_vars

\* a mutation returned False while the cache held a path of its first user
C33_Witness ==
    /\ th[1].pc = "idle"
    /\ last.op \in ServiceMutations
    /\ last.ret = FALSE
    /\ \E i \in 1..Len(cache._cache) :
          cache._cache[i].value.start_user = last.a

\* ------------------------------------------ claims about what is cached
\* every stored result is a found one, and a call that has a not-found
\* response was not served from the cache and left no entry for its pair
OnlyFoundStored ==
    /\ \A i \in 1..Len(cache._cache) : cache._cache[i].value.found
    /\ (ServiceDone /\ ~th[1].response.found)
       => /\ ~th[1].response.from_cache
          /\ ~HasKey(cache, _create_path_key(th[1].start, th[1].target))

\* the cache lookup of a find_path that repeats the call that just returned
\* not found is not a hit
RepeatNotFoundStep ==
    (/\ th[1].pc = "svc_check"
     /\ th'[1].pc # "svc_check"
     /\ last.op = "find_path"
     /\ ~last.ret.found
     /\ th[1].start = last.a
     /\ th[1].target = last.b)
    => th'[1].pc # "svc_done"

\* C34: every entry of the path cache has found = true; a find_path that
\* returns found = false adds no entry, and the same query repeated is
\* answered with from_cache = false again.
C34_OnlyFoundCached == []OnlyFoundStored /\ [][RepeatNotFoundStep]_vars

\* a query that used the cache and was not found was repeated with the
\* cache and was not found by a search again
C34_Witness ==
    /\ ServiceDone
    /\ th[1].use_cache
    /\ ~th[1].response.found
    /\ ~th[1].response.from_cache
    /\ last.op = "find_path"
    /\ last.use_cache
    /\ ~last.ret.found
    /\ last.a = th[1].start
    /\ last.b = th[1].target

\* ------------------------------- claims about the metrics under concurrency
\* the threads whose find_path has not yet counted its outcome
InFlight == {t \in Threads : th[t].pc \notin {"idle", "svc_done"}}

\* every call was counted once in total_queries and, once its outcome is
\* known, once in successful_queries or failed_queries
OutcomesCounted ==
    query_metrics.total_queries =
        query_metrics.successful_queries + query_metrics.failed_queries
        + Cardinality(InFlight)

\* a step in which n threads begin a call adds n to total_queries
CallCountedStep ==
    LET began == {t \in Threads : th[t].pc = "idle" /\ th'[t].pc # "idle"}
    IN  query_metrics'.total_queries =
            query_metrics.total_queries + Cardinality(began)

\* C35: for every interleaving of concurrent find_path calls, total_queries
\* grows by one with every call and, once all calls have returned,
\* successful_queries + failed_queries has grown by the number of calls.
C35_OutcomeAccounting == []OutcomesCounted /\ [][CallCountedStep]_vars

\* two calls that ran at the same time have both returned, one found and
\* one not
C35_Witness ==
    /\ \A t \in Threads : th[t].pc = "svc_done"
    /\ \E t \in Threads : th[t].response.found
    /\ \E t \in Threads : ~th[t].response.found
    /\ query_metrics.successful_queries >= 1
    /\ query_metrics.failed_queries >= 1

\* ------------------------------------------------ claims about termination
\* the turns of the loop of find_shortest_path begun so far in the call
Rounds == th[1].current_depth + (IF th[1].pc = "bfs_expand" THEN 1 ELSE 0)

\* a meeting ends the turn it is found in: that turn is not counted in
\* current_depth
RoundsAtReturn ==
    th[1].current_depth + (IF th[1].result.found THEN 1 ELSE 0)

RoundsBounded ==
    /\ th[1].pc \in {"bfs_loop", "bfs_expand"} => Rounds <= MaxDepth + 1
    /\ (SearchDone /\ th[1].start # th[1].target /\ BothExist)
       => RoundsAtReturn <= MaxDepth + 1

\* C36: find_shortest_path terminates on every graph, with cycles or with
\* isolated endpoints, after at most MaxDepth + 1 turns of its loop.
C36_Termination ==
    /\ []RoundsBounded
    /\ (th[1].pc \in {"bfs_loop", "bfs_expand"}) ~> SearchDone

\* a search ran all MaxDepth + 1 turns and returned not found
C36_Witness ==
    /\ SearchDone
    /\ BothExist
    /\ ~th[1].result.found
    /\ th[1].current_depth = MaxDepth + 1

\* ------------------------------------------- claims about the BFS levels
\* the users in a queue
InQueue(q) == {q[i] : i \in 1..Len(q)}

\* the users a half has recorded at depth d
Level(depths, d) == {v \in DOMAIN depths : depths[v] = d}

\* the greatest depth a half has recorded
Deepest(depths) ==
    CHOOSE d \in {depths[v] : v \in DOMAIN depths} :
        \A v \in DOMAIN depths : depths[v] <= d

\* between two calls of _expand_frontier the queue of a half is empty or
\* holds, once each, the users of the deepest level of the half
OneLevelQueued(q, depths) ==
    q # << >> =>
        /\ InQueue(q) = Level(depths, Deepest(depths))
        /\ Len(q) = Cardinality(InQueue(q))

\* inside a call that has dequeued users of depth d, the rest of the queue
\* has depth d and what was collected for the next turn has depth d + 1
LevelBeingDrained(q, next, depths) ==
    \E d \in 0..MaxDepth :
        /\ \A v \in InQueue(q) : depths[v] = d
        /\ \A v \in InQueue(next) : depths[v] = d + 1
        /\ InQueue(q) \cup InQueue(next) # {} =>
              Deepest(depths) = (IF next = << >> THEN d ELSE d + 1)

\* the depths a half has recorded are the distances from its root
DepthsAreDistances ==
    /\ \A v \in DOMAIN th[1].fdep :
          th[1].fdep[v] = TrueDistance(th[1].start, v)
    /\ \A v \in DOMAIN th[1].bdep :
          th[1].bdep[v] = TrueDistance(th[1].target, v)

LevelSynchronous ==
    /\ th[1].pc = "bfs_loop"
       => /\ OneLevelQueued(th[1].fq, th[1].fdep)
          /\ OneLevelQueued(th[1].bq, th[1].bdep)
    /\ th[1].pc = "bfs_expand"
       => /\ th[1].side = "f"
             => /\ LevelBeingDrained(th[1].fq, th[1].next_queue, th[1].fdep)
                /\ OneLevelQueued(th[1].bq, th[1].bdep)
          /\ th[1].side = "b"
             => /\ LevelBeingDrained(th[1].bq, th[1].next_queue, th[1].bdep)
                /\ OneLevelQueued(th[1].fq, th[1].fdep)
    /\ th[1].pc \in {"bfs_loop", "bfs_expand"} => DepthsAreDistances

\* C37: a call of _expand_frontier that finds no meeting point dequeues the
\* users of one depth level of its half and leaves in the queue only users
\* recorded one level deeper; every recorded depth is the distance from the
\* root of the half.
C37_LevelSynchronous == LevelSynchronous

\* a call of _expand_frontier ended without a meeting and left a level of
\* several users at depth 2 in the forward queue
C37_Witness ==
    /\ th[1].pc = "bfs_loop"
    /\ Len(th[1].fq) >= 2
    /\ \A v \in InQueue(th[1].fq) : th[1].fdep[v] = 2

\* ----------------------------------------------- claims about nodes_explored
\* the number of users the search of thread 1 has dequeued: the users a half
\* ever had in its queue are those of its visited map, but for the ones
\* still collected in next_queue; the ones not dequeued are still queued
Dequeued ==
    LET l == th[1]
    IN  (Cardinality(DOMAIN l.fvis) - Len(l.fq)
            - (IF l.side = "f" THEN Len(l.next_queue) ELSE 0))
        + (Cardinality(DOMAIN l.bvis) - Len(l.bq)
            - (IF l.side = "b" THEN Len(l.next_queue) ELSE 0))

\* C38: the nodes_explored of the result of a search between two distinct
\* users is the number of users dequeued from the two queues.
C38_NodesExploredCountsDequeued ==
    (SearchDone /\ BothExist /\ th[1].start # th[1].target)
    => th[1].result.nodes_explored = Dequeued

\* ------------------------------------------- claims about the shard edges
\* the neighbours the shard of user u records for u, local and remote
ShardNeighbors(u) ==
    LET s == get_shard_for_user(u)
    IN  DictGetSet(local_edges[s], u)
        \cup {p[1] : p \in DictGetSet(remote_edges[s], u)}

\* C40: when no mutation is in progress, the neighbours the shard of a user
\* records for it are get_connections of the user, and the total_edges of
\* the shards sum to twice total_connections, also after remove_connection.
C40_ShardEdgesMirrorGraph ==
    dbOp = NoOp
    => /\ \A u \in DOMAIN users : ShardNeighbors(u) = get_connections(u)
       /\ SumFn([s \in Shards |-> get_shard_stats[s].total_edges], Shards)
            = 2 * get_database_stats.total_connections

\* -------------------------------------------------- claims about the locks
LockRank(lock) ==
    CASE lock = GraphLock -> 1 [] lock = CacheLock -> 2 [] lock = MetricsLock -> 3

\* the locks a thread holds were taken graph lock first, metrics lock last
LockHierarchy ==
    \A t \in Threads : \A i, j \in 1..Len(th[t].held) :
        i < j => LockRank(th[t].held[i]) <= LockRank(th[t].held[j])

\* a find_path that is in a section of its search holds no lock
SearchHoldsNoLock ==
    \A t \in Threads :
        (th[t].pc = "running" /\ th[t].op = "find_path"
            /\ Head(th[t].script) = << >>)
        => th[t].held = << >>

\* thread t is at a with block whose lock it cannot take
Waiting(t) ==
    /\ th[t].pc = "running"
    /\ th[t].todo # << >>
    /\ ~ENABLED LockAcquire(t)

\* the threads that hold the lock t is waiting for
Blockers(t) ==
    {u \in Threads : Holds(u, Head(th[t].todo))}

\* no set of threads wait for locks that only threads of the set hold
DeadlockFree ==
    \A S \in (SUBSET Threads) \ {{}} :
        ~(\A t \in S : Waiting(t) /\ Blockers(t) \subseteq S)

\* C39: no operation takes the graph lock while it holds the cache lock or
\* the metrics lock, nor the cache lock while it holds the metrics lock, the
\* search holds no lock between its adjacency reads, and no interleaving of
\* find_path, add_connection, remove_connection and get_service_stats
\* deadlocks.
C39_LockHierarchy == LockHierarchy /\ SearchHoldsNoLock /\ DeadlockFree

\* a thread waits for the cache lock that another thread holds
C39_Witness ==
    \E t \in Threads, u \in Threads :
        /\ t # u
        /\ Waiting(t)
        /\ Head(th[t].todo) = CacheLock
        /\ Holds(u, CacheLock)
        /\ th[t].op = "find_path"
        /\ th[u].op \in {"add_connection", "remove_connection"}

====
